---- MODULE Spec2Model ----
(***************************************************************************)
(* Credential-gated collector lifecycle of the Zaim Prometheus exporter.   *)
(*                                                                         *)
(*   internal/metrics  Manager (registry_manager.go), ZaimCollector,       *)
(*                     Aggregator                                          *)
(*   internal/auth     FileTokenStorage, Manager (oauth.go)                *)
(*   internal/storage  MemoryRequestTokenStore                             *)
(*   internal/server   the HTTP handlers (server.go)                       *)
(*   cmd/exporter      main (main.go)                                      *)
(*                                                                         *)
(* Time is counted in minutes.  prometheus.Registry is the library the     *)
(* Manager and main register with; its Register/Unregister identify a      *)
(* collector by the set of descriptors the collector's Describe yields at  *)
(* the moment of the call, and ZaimCollector.Describe is DescribeByCollect,*)
(* so a Describe runs Collect.                                             *)
(***************************************************************************)
EXTENDS Integers, Sequences, FiniteSets, TLC

\* ---------------------------------------------------------------- bounds
MaxTime == 5
MaxCollectors == 2
MaxHandshakes == 1
MaxExchanges == 2
MaxTokenLen == 1
MaxWait == 2
MaxTx == 2

\* ------------------------------------------------------ program constants
cacheDuration == 5
requestTokenTTL == 10
redisTTL == 10
\* Asia/Tokyo is 9 hours ahead of UTC, in minutes.
TokyoOffset == 540

\* ---------------------------------------------------------------- threads
Callers == {"c1", "c2"}
Scrapers == {"s1"}
CollectCallers == {"s1", "s2", "s3"}
Handlers == {"h1", "h2"}
MainThread == "main"
Threads == Callers \cup CollectCallers \cup Handlers \cup {MainThread}

NoThread == "none"
\* The program of a thread that may make any call at any time.
AnyCalls == <<"*">>
NoCollector == 0
NoFetcher == 0
NoCache == [data |-> <<>>, timestamp |-> -1]
NoFile == 0
\* The token file: whether it exists, and its bytes.
AbsentFile == [present |-> FALSE, bytes |-> <<>>]

WrittenFile(bytes) == [present |-> TRUE, bytes |-> bytes]

\* The collectors RegisterCollector constructs, and one a Manager used before
\* may have left behind.
LeftCollector == MaxCollectors + 1
Collectors == 1..LeftCollector
\* The request tokens the remote service issues; 0 stands for an empty parameter.
RequestTokens == 1..MaxHandshakes
NoEntry == [secret |-> 0, expiresAt |-> -1]
NoRequest == [token |-> 0, secret |-> 0, verifier |-> "", host |-> ""]
\* oauth1.Config.CallbackURL as NewManager leaves it (oauth.go lines 173-181).
NoURL == <<>>
\* No path configured; a file system with nothing but the root and the
\* working directory.
NoPath == <<>>
EmptyDisk == [dirs |-> {}, files |-> {}]
\* ENCRYPTION_KEY unset (the empty string), and no store built yet.
NoSetting == [len |-> 0, base64 |-> FALSE, pad |-> 0]
NoStore == [built |-> FALSE, nil |-> TRUE, len |-> 0]
\* The ids the callers of a handshake store pass.
HandshakeIds == {1, 2}
\* The key RedisRequestTokenStore stores a token under (lines 52, 66, 83).
RedisKey(token) == <<"zaim:request_token:", token>>
EmptyRedis == [k \in { RedisKey(token) : token \in HandshakeIds } |-> NoEntry]
NoSet == [secret |-> 0, at |-> -1]
NoCalls == [k \in HandshakeIds |-> NoSet]
\* A fetcher is identified by the credential its client was built from.
Fetchers == 1..(MaxHandshakes + 1)
\* The fetchers the callers of RegisterCollector pass.
CallerFetchers == {1, 2}

VARIABLES
    now,               \* wall clock, minutes
    client,            \* ZaimCollector.client, per constructed collector
    cache,             \* ZaimCollector.cache
    constructed,       \* collectors constructed so far
    collectorMu,       \* ZaimCollector.mu: the thread holding the write lock
    collectorsByID,    \* prometheus.Registry: descriptor set -> collector
    regMtx,            \* prometheus.Registry.mtx: the thread holding it
    managerMu,         \* metrics.Manager.mu: the thread holding it
    currentCollector,  \* metrics.Manager.currentCollector
    pc,                \* per thread: position in the code
    stage,             \* per thread: the operation that called Collect
    callee,            \* per thread: the collector whose Collect it runs
    fetcherArg,        \* per thread: RegisterCollector's argument
    program,           \* per thread: the calls its goroutine has yet to make
    event,             \* what the last step returned or emitted, if anything
    tokenFile,         \* FileTokenStorage: the credential in the token file
    storedFile,        \* FileTokenStorage: the token file byte by byte
    filepath,          \* FileTokenStorage.filepath
    fs,                \* the file system: its directories and regular files
    keySetting,        \* Config.EncryptionKey: the text of ENCRYPTION_KEY
    encryptionKey,     \* FileTokenStorage.encryptionKey, once the store is built
    tokens,            \* MemoryRequestTokenStore.tokens
    redis,             \* the Redis server: the keys of RedisRequestTokenStore
    lastSet,           \* per id: the latest Set a store's caller made, until deleted
    issued,            \* remote service: request tokens issued so far
    callbackURL,       \* auth.Manager.config.CallbackURL
    exchanges,         \* remote service: AccessToken calls seen per request token
    req                \* per handler: the callback it serves (token, secret, verifier)

collectorVars == <<client, cache, collectorMu>>
registryVars == <<collectorsByID, regMtx>>
managerVars == <<managerMu, currentCollector>>
threadVars == <<pc, stage, callee, fetcherArg, program>>
serverVars == <<tokenFile, storedFile, filepath, fs, keySetting, encryptionKey, tokens, redis,
               lastSet, issued, callbackURL, exchanges, req>>
vars == <<now, collectorVars, constructed, registryVars, managerVars, threadVars, serverVars, event>>

\* ------------------------------------------------------------ Aggregator
\* zaim.Transaction.  The Created string is written as what
\* time.ParseInLocation makes of it: parsable or not, and the day, hour and
\* minute it reads.
Unparsable == [parsable |-> FALSE, day |-> 0, hour |-> 0, min |-> 0]

\* The transactions a fetcher can return: none, or one payment of today 10:05.
TxOne(f) == [id |-> f, mode |-> "payment", amount |-> 1000, date |-> 0,
             created |-> [parsable |-> TRUE, day |-> 0, hour |-> 10, min |-> 5]]
FetchData(f) == { <<>>, <<TxOne(f)>> }

EmptyHourly == [PaymentCount |-> 0, PaymentTotal |-> 0, IncomeCount |-> 0, IncomeTotal |-> 0]

HourKey(created) == <<created.day, created.hour>>

\* A bucket update that takes every transaction that is no income for a
\* payment.
AddToBucketElse(b, tx) ==
    IF tx.mode = "income"
    THEN [b EXCEPT !.IncomeCount = @ + 1, !.IncomeTotal = @ + tx.amount]
    ELSE [b EXCEPT !.PaymentCount = @ + 1, !.PaymentTotal = @ + tx.amount]

AddToBucket(b, tx) ==
    CASE tx.mode = "payment" ->
             [b EXCEPT !.PaymentCount = @ + 1, !.PaymentTotal = @ + tx.amount]
      [] tx.mode = "income" ->
             [b EXCEPT !.IncomeCount = @ + 1, !.IncomeTotal = @ + tx.amount]
      [] OTHER -> b

\* The loop of AggregateByHour over transactions[1..n]: a set of
\* <<key, bucket>> pairs with one pair per key.
RECURSIVE AggregateByHourUpTo(_, _)
AggregateByHourUpTo(transactions, n) ==
    IF n = 0 THEN {}
    ELSE LET metrics == AggregateByHourUpTo(transactions, n - 1)
             tx == transactions[n]
         IN IF ~tx.created.parsable THEN metrics
            ELSE LET key == HourKey(tx.created)
                     have == {p \in metrics : p[1] = key}
                     old == IF have = {} THEN EmptyHourly
                            ELSE (CHOOSE p \in have : TRUE)[2]
                 IN (metrics \ have) \cup {<<key, AddToBucket(old, tx)>>}

\* AggregateByHour without the check of the parse error: the record is
\* counted under the zero time the failed parse returns.
AggregateByHourUnchecked(transactions) ==
    AggregateByHourUpTo([i \in 1..Len(transactions) |->
                            IF transactions[i].created.parsable THEN transactions[i]
                            ELSE [transactions[i] EXCEPT
                                     !.created = [parsable |-> TRUE, day |-> -1, hour |-> 0,
                                                  min |-> 0]]],
                        Len(transactions))

\* AggregateByHour that makes a bucket only where it has something to add.
AggregateByHourOfMoney(transactions) ==
    AggregateByHourUpTo(SelectSeq(transactions, LAMBDA tx : tx.mode \in {"payment", "income"}),
                        Len(SelectSeq(transactions,
                                      LAMBDA tx : tx.mode \in {"payment", "income"})))

AggregateByHour(transactions) == AggregateByHourUpTo(transactions, Len(transactions))

\* AggregateByDay, lines 70-97: the key is the date, a record whose date
\* does not parse (written as a negative day) is skipped.
AggregateByDay(transactions) ==
    LET upTo[n \in 0..Len(transactions)] ==
            IF n = 0 THEN {}
            ELSE LET tx == transactions[n]
                     have == {p \in upTo[n - 1] : p[1] = tx.date}
                     old == IF have = {} THEN EmptyHourly ELSE (CHOOSE p \in have : TRUE)[2]
                 IN IF tx.date < 0 THEN upTo[n - 1]
                    ELSE (upTo[n - 1] \ have) \cup {<<tx.date, AddToBucket(old, tx)>>}
    IN upTo[Len(transactions)]

\* The current day of the system clock's own zone, UTC.
TodayUTC(t) == t \div 1440

\* The current day in the reporting zone: time.Now().In(location), line 101.
\* The clock counts the minutes from midnight UTC of day 0.
Today(t) == (t + TokyoOffset) \div 1440

RECURSIVE GetTodayTotalUpTo(_, _, _)
GetTodayTotalUpTo(transactions, n, today) ==
    IF n = 0 THEN 0
    ELSE GetTodayTotalUpTo(transactions, n - 1, today)
         + (IF transactions[n].date = today /\ transactions[n].mode = "payment"
            THEN transactions[n].amount ELSE 0)

GetTodayTotal(transactions, t) == GetTodayTotalUpTo(transactions, Len(transactions), Today(t))

\* --------------------------------------------------------- ZaimCollector
Sample(name, label, value) == [name |-> name, label |-> label, value |-> value]

ErrorMetrics == { Sample("zaim_error", <<"api_error">>, 1) }

HourlySamples(hourly) ==
    UNION { { Sample("zaim_payment_amount", p[1], p[2].PaymentTotal),
              Sample("zaim_payment_count", p[1], p[2].PaymentCount),
              Sample("zaim_income_amount", p[1], p[2].IncomeTotal),
              Sample("zaim_income_count", p[1], p[2].IncomeCount) } : p \in hourly }

\* Collect that takes an empty transaction list for a failed fetch.
CollectErrorOnEmpty(failed, transactions, t) ==
    IF failed \/ transactions = <<>> THEN ErrorMetrics
    ELSE HourlySamples(AggregateByHour(transactions))
         \cup { Sample("zaim_today_total_amount", <<>>, GetTodayTotal(transactions, t)),
                Sample("zaim_last_update", <<>>, t * 60) }

\* Collect without the return that follows the error indicator.
CollectNoReturn(failed, transactions, t) ==
    (IF failed THEN ErrorMetrics ELSE {})
    \cup HourlySamples(AggregateByHour(transactions))
    \cup { Sample("zaim_today_total_amount", <<>>, GetTodayTotal(transactions, t)),
           Sample("zaim_last_update", <<>>, t * 60) }

\* What Collect sends on the channel, given what getTransactions returned.
Collect(failed, transactions, t) ==
    IF failed THEN ErrorMetrics
    ELSE HourlySamples(AggregateByHour(transactions))
         \cup { Sample("zaim_today_total_amount", <<>>, GetTodayTotal(transactions, t)),
                Sample("zaim_last_update", <<>>, t * 60) }

\* The freshness test with the bound included.
FreshInclusive(ca, t) == ca # NoCache /\ t - ca.timestamp <= cacheDuration

\* The freshness test of getTransactions.
Fresh(ca, t) == ca # NoCache /\ t - ca.timestamp < cacheDuration

\* getTransactions without the second check.
StillFreshUnchecked(ca, t) == FALSE

\* The same test repeated under the write lock (line 115).
StillFresh(ca, t) == ca # NoCache /\ t - ca.timestamp < cacheDuration

\* --------------------------------------------------- prometheus.Registry
\* DescribeByCollect: the descriptors of the metrics Collect emitted.  A
\* descriptor's identity is its fully-qualified name and constant labels; the
\* hour label is a variable label.
Descs(metrics) == { s.name : s \in metrics }

DescIDs(reg) == UNION { e.id : e \in reg }

\* Registry.Register refuses a collector whose descriptor set is registered
\* (AlreadyRegisteredError) or overlaps a registered one.
RegisterFails(reg, descs) ==
    \/ \E e \in reg : e.id = descs
    \/ descs \cap DescIDs(reg) # {}

RegistryRegister(reg, descs, c) == reg \cup { [id |-> descs, coll |-> c] }

\* Registry.Unregister removes the entry stored under the descriptor set the
\* collector describes now; if there is none it removes nothing.
RegistryUnregister(reg, descs) == { e \in reg : e.id # descs }

Registered == { e.coll : e \in collectorsByID }

\* ---------------------------------------------------------------- events
\* What a step returned to its caller or emitted on the scrape channel.
NoEvent == [thread |-> NoThread, op |-> "none", ret |-> "none", collector |-> NoCollector,
            via |-> "none", data |-> <<>>, before |-> NoCache, at |-> -1, metrics |-> {}]

Returns(t, op, ret) == [NoEvent EXCEPT !.thread = t, !.op = op, !.ret = ret]

\* ------------------------------------------------------------------ Init
Init ==
    /\ now = 0
    /\ client = [c \in Collectors |-> NoFetcher]
    /\ cache = [c \in Collectors |-> NoCache]
    /\ collectorMu = [c \in Collectors |-> NoThread]
    /\ constructed = 0
    /\ collectorsByID = {}
    /\ regMtx = NoThread
    /\ managerMu = NoThread
    /\ currentCollector = NoCollector
    /\ pc = [t \in Threads |-> "idle"]
    /\ stage = [t \in Threads |-> "none"]
    /\ callee = [t \in Threads |-> NoCollector]
    /\ fetcherArg = [t \in Threads |-> NoFetcher]
    /\ program = [t \in Threads |-> AnyCalls]
    /\ tokenFile = NoFile
    /\ storedFile = AbsentFile
    /\ filepath = NoPath
    /\ fs = EmptyDisk
    /\ keySetting = NoSetting
    /\ encryptionKey = NoStore
    /\ tokens = [k \in RequestTokens |-> NoEntry]
    /\ redis = EmptyRedis
    /\ lastSet = NoCalls
    /\ issued = 0
    /\ callbackURL = NoURL
    /\ exchanges = [k \in RequestTokens |-> 0]
    /\ req = [h \in Handlers |-> NoRequest]
    /\ event = NoEvent

\* --------------------------------------------------------------- Manager
\* IsRegistered answering from the registry instead of the Manager's handle.
IsRegisteredInRegistry == Registered # {}

\* IsRegistered, lines 71-75.
IsRegistered == currentCollector # NoCollector

NextCollector == constructed + 1

\* A collector nothing refers to any more (not the registry, not the Manager,
\* no running Collect) is garbage: its fields are forgotten.
Live(c) ==
    \/ c \in { e.coll : e \in collectorsByID' }
    \/ c = currentCollector'
    \/ \E t \in Threads : callee'[t] = c

Swept(f, dead) == [c \in Collectors |-> IF Live(c) THEN f[c] ELSE dead]

\* Describe(c) on thread t, for operation st: Describe runs Collect on c.
StartDescribe(t, c, st) ==
    /\ callee' = [callee EXCEPT ![t] = c]
    /\ stage' = [stage EXCEPT ![t] = st]
    /\ pc' = [pc EXCEPT ![t] = "RLock"]

\* NewZaimCollector(f), then Register: the registry lock is taken and the
\* new collector is asked to describe itself.
StartRegister(t, st) ==
    /\ constructed' = constructed + 1
    /\ regMtx' = t
    /\ StartDescribe(t, NextCollector, st)

Idle(t) ==
    /\ pc' = [pc EXCEPT ![t] = "idle"]
    /\ stage' = [stage EXCEPT ![t] = "none"]
    /\ callee' = [callee EXCEPT ![t] = NoCollector]
    /\ fetcherArg' = [fetcherArg EXCEPT ![t] = NoFetcher]
    /\ UNCHANGED program

\* Thread t makes the call `op` next: its program allows it, and goes on.
Calls(t, op) ==
    /\ program[t] # <<>>
    /\ Head(program[t]) \in {"*", op}
    /\ program' = IF program[t] = AnyCalls THEN program
                  ELSE [program EXCEPT ![t] = Tail(@)]

\* RegisterCollector, lines 37-47: lock; if a collector is held, Unregister
\* it (which describes it); otherwise construct and Register the new one.
RegisterCollector(t, f) ==
    /\ pc[t] = "idle"
    /\ Calls(t, "RegisterCollector")
    /\ managerMu = NoThread
    /\ regMtx = NoThread
    /\ constructed < MaxCollectors
    /\ managerMu' = t
    /\ fetcherArg' = [fetcherArg EXCEPT ![t] = f]
    /\ IF currentCollector # NoCollector
       THEN /\ StartDescribe(t, currentCollector, "Register.Unregister")
            /\ UNCHANGED <<client, constructed, regMtx>>
       ELSE /\ StartRegister(t, "Register.Register")
            /\ client' = [client EXCEPT ![NextCollector] = f]
    /\ event' = NoEvent
    /\ UNCHANGED <<now, cache, collectorMu, collectorsByID, currentCollector, serverVars>>

\* UnregisterCollector, lines 60-64; with no collector held it returns at once.
UnregisterCollector(t) ==
    /\ pc[t] = "idle"
    /\ Calls(t, "UnregisterCollector")
    /\ managerMu = NoThread
    /\ IF currentCollector # NoCollector
       THEN /\ managerMu' = t
            /\ StartDescribe(t, currentCollector, "Unregister")
            /\ event' = NoEvent
            /\ UNCHANGED fetcherArg
       ELSE /\ event' = Returns(t, "UnregisterCollector", "ok")
            /\ UNCHANGED <<managerMu, pc, stage, callee, fetcherArg>>
    /\ UNCHANGED <<now, collectorVars, constructed, registryVars, currentCollector, serverVars>>

\* GET /metrics: Registry.Gather snapshots the registered collectors under
\* the registry lock and calls Collect on each; t follows one of them.
Gather(t) ==
    /\ pc[t] = "idle"
    /\ regMtx = NoThread
    /\ \E c \in Registered : StartDescribe(t, c, "Gather")
    /\ event' = NoEvent
    /\ UNCHANGED <<now, collectorVars, constructed, registryVars, managerVars, fetcherArg, program,
                   serverVars>>

\* What the caller of Collect does when Collect has sent `metrics`, up to its
\* next blocking call: the registry, Manager and thread part of the step.
Continue(t, metrics) ==
    CASE stage[t] = "Register.Unregister" ->
            \* line 42 done: Unregister(old); lines 47-48: construct, Register
            /\ collectorsByID' = RegistryUnregister(collectorsByID, Descs(metrics))
            /\ StartRegister(t, "Register.Register")
            /\ UNCHANGED <<managerVars, fetcherArg, program>>
      [] stage[t] = "Register.Register" ->
            \* lines 48-54
            /\ IF RegisterFails(collectorsByID, Descs(metrics))
               THEN UNCHANGED <<collectorsByID, currentCollector>>
               ELSE /\ collectorsByID' =
                          RegistryRegister(collectorsByID, Descs(metrics), callee[t])
                    /\ currentCollector' = callee[t]
            /\ regMtx' = NoThread
            /\ managerMu' = NoThread
            /\ Idle(t)
            /\ UNCHANGED constructed
      [] stage[t] = "Unregister" ->
            \* lines 64-67
            /\ collectorsByID' = RegistryUnregister(collectorsByID, Descs(metrics))
            /\ currentCollector' = NoCollector
            /\ managerMu' = NoThread
            /\ Idle(t)
            /\ UNCHANGED <<constructed, regMtx>>
      [] stage[t] = "MustRegister" ->
            \* main.go line 75; MustRegister panics if Register fails
            /\ ~RegisterFails(collectorsByID, Descs(metrics))
            /\ collectorsByID' = RegistryRegister(collectorsByID, Descs(metrics), callee[t])
            /\ regMtx' = NoThread
            /\ pc' = [pc EXCEPT ![t] = "serving"]
            /\ stage' = [stage EXCEPT ![t] = "none"]
            /\ callee' = [callee EXCEPT ![t] = NoCollector]
            /\ UNCHANGED <<constructed, managerVars, fetcherArg, program>>
      [] OTHER ->
            \* Gather: the samples go to the scrape response
            /\ Idle(t)
            /\ UNCHANGED <<constructed, registryVars, managerVars>>

\* A replacement that hands the new client to the collectors in use too.
ClientAfterShared(t) ==
    IF stage[t] = "Register.Unregister"
    THEN [c \in Collectors |-> fetcherArg[t]]
    ELSE client

\* The collector constructed in that step, if any, gets its client.
ClientAfter(t) ==
    IF stage[t] = "Register.Unregister"
    THEN [client EXCEPT ![NextCollector] = fetcherArg[t]]
    ELSE client

\* A replacement that hands the new collector the cache entry of the old one.
CacheAfterShared(t, cacheAfter) ==
    IF stage[t] = "Register.Unregister"
    THEN [cacheAfter EXCEPT ![NextCollector] = cacheAfter[callee[t]]]
    ELSE cacheAfter

\* NewZaimCollector, lines 27-34: the collector constructed in that step, if
\* any, has no cache entry.
CacheAfter(t, cacheAfter) ==
    IF stage[t] = "Register.Unregister"
    THEN [cacheAfter EXCEPT ![NextCollector] = NoCache]
    ELSE cacheAfter

\* The operation that returns in that step, and what it returns.
Outcome(t, metrics) ==
    CASE stage[t] = "Register.Unregister" -> <<"none", "none">>
      [] stage[t] = "Register.Register" ->
            <<"RegisterCollector",
              IF RegisterFails(collectorsByID, Descs(metrics)) THEN "error" ELSE "ok">>
      [] stage[t] = "Unregister" -> <<"UnregisterCollector", "ok">>
      [] stage[t] = "MustRegister" -> <<"MustRegister", "ok">>
      [] OTHER -> <<"Gather", "ok">>

\* Collect returns on thread t: the samples it sent, and the caller goes on.
\* cacheAfter and muAfter are the collectors' caches and locks as
\* getTransactions left them.
CollectReturns(t, via, data, cacheAfter, muAfter) ==
    LET metrics == Collect(via = "error", data, now) IN
    /\ Continue(t, metrics)
    /\ client' = Swept(ClientAfter(t), NoFetcher)
    /\ cache' = Swept(CacheAfter(t, cacheAfter), NoCache)
    /\ collectorMu' = muAfter
    /\ event' = [thread |-> t, op |-> Outcome(t, metrics)[1], ret |-> Outcome(t, metrics)[2],
                 collector |-> callee[t], via |-> via, data |-> data,
                 before |-> cache[callee[t]], at |-> now, metrics |-> metrics]

\* ------------------------------------------------------- getTransactions
\* An unlock that leaves the lock held.
UnlockedNever(c) == collectorMu

\* c.mu.Unlock(), line 112 (deferred).
Unlocked(c) == [collectorMu EXCEPT ![c] = NoThread]

\* Lines 102-109: the check under the read lock.
GetTransactionsRLock(t) ==
    /\ pc[t] = "RLock"
    /\ collectorMu[callee[t]] = NoThread
    /\ LET ca == cache[callee[t]] IN
       IF Fresh(ca, now)
       THEN CollectReturns(t, "cached", ca.data, cache, collectorMu)
       ELSE /\ pc' = [pc EXCEPT ![t] = "Lock"]
            /\ event' = NoEvent
            /\ UNCHANGED <<collectorVars, constructed, registryVars, managerVars, stage,
                           callee, fetcherArg, program>>
    /\ UNCHANGED <<now, serverVars>>

\* Lines 111-117: the write lock and the second check.
GetTransactionsLock(t) ==
    /\ pc[t] = "Lock"
    /\ collectorMu[callee[t]] = NoThread
    /\ LET ca == cache[callee[t]] IN
       IF StillFresh(ca, now)
       THEN CollectReturns(t, "rechecked", ca.data, cache, collectorMu)
       ELSE /\ collectorMu' = [collectorMu EXCEPT ![callee[t]] = t]
            /\ pc' = [pc EXCEPT ![t] = "fetch"]
            /\ event' = NoEvent
            /\ UNCHANGED <<client, cache, constructed, registryVars, managerVars, stage,
                           callee, fetcherArg, program>>
    /\ UNCHANGED <<now, serverVars>>

\* Lines 119-122: the fetcher returns an error.
GetTransactionsFetchError(t) ==
    /\ pc[t] = "fetch"
    /\ CollectReturns(t, "error", <<>>, cache, Unlocked(callee[t]))
    /\ UNCHANGED <<now, serverVars>>

\* A refresh that adds the fetched transactions to the entry it finds.
RefreshedAppend(ca, transactions, t) ==
    [data |-> ca.data \o transactions, timestamp |-> t]

\* A refresh that keeps the time of the entry it replaces.
RefreshedKeepsTime(ca, transactions, t) ==
    [data |-> transactions, timestamp |-> IF ca = NoCache THEN t ELSE ca.timestamp]

\* The cache entry of lines 124-127.
Refreshed(ca, transactions, t) == [data |-> transactions, timestamp |-> t]

\* Lines 119-130: the fetcher returns transactions; the cache is replaced.
GetTransactionsFetch(t) ==
    /\ pc[t] = "fetch"
    /\ \E transactions \in FetchData(client[callee[t]]) :
          CollectReturns(t, "fetched", transactions,
                         [cache EXCEPT ![callee[t]] = Refreshed(@, transactions, now)],
                         Unlocked(callee[t]))
    /\ UNCHANGED <<now, serverVars>>

Tick ==
    /\ now < MaxTime
    /\ now' = now + 1
    /\ event' = NoEvent
    /\ UNCHANGED <<collectorVars, constructed, registryVars, managerVars, threadVars,
                   serverVars>>

\* ------------------------------------------------------ FileTokenStorage
\* Load succeeds when the token file is there.
LoadOK(file) == file # NoFile

\* auth.Manager.IsAuthenticated, lines 238-241.
IsAuthenticated == LoadOK(tokenFile)

\* Clear, lines 116-124: the file is removed; a missing file is no error.
Clear(file) == NoFile

\* Save that writes nothing.
SaveNothing(file, credential) == file

\* Save, lines 91-114: the file holds the saved tokens.
Save(file, credential) == credential

\* --------------------------------- FileTokenStorage: the bytes in the file
\* Token strings are sequences of bytes: "a" stands for any byte of valid
\* UTF-8 text, BadByte for a byte that is not valid UTF-8.
BadByte == "\\xff"

\* encoding/json writes an invalid byte as the escape of U+FFFD ...
EscapedReplacement == "\\ufffd"

\* ... which it reads back as the rune U+FFFD.
ReplacementRune == "U+FFFD"

TokenBytes == {"a", BadByte}

TokenStrings == UNION { [1..n -> TokenBytes] : n \in 0..MaxTokenLen }

\* OAuthTokens, lines 26-29.
OAuthTokens == [Token : TokenStrings, TokenSecret : TokenStrings]

\* The encryption keys a FileTokenStorage may be built with (lines 43-62):
\* none, two keys of a valid AES length, and a base64 key that decodes to a
\* length aes.NewCipher refuses.
NoKey == "nil"
ShortKey == "short"
Keys == {NoKey, "k1", "k2", ShortKey}
ValidAESKey(key) == key \in {"k1", "k2"}

\* gcm.NonceSize(), line 156.
NonceSize == 12

\* The nonce rand.Reader supplies (lines 137-140).
Nonces == {"n1"}

\* json.Marshal of a string: the bytes, invalid ones coerced.
JsonString(str) ==
    [i \in 1..Len(str) |-> IF str[i] = BadByte THEN EscapedReplacement ELSE str[i]]

\* json.Marshal(tokens), line 95, with the field names of lines 27-28.
jsonMarshal(credential) ==
    <<"{", "\"", "t", "o", "k", "e", "n", "\"", ":", "\"">> \o JsonString(credential.Token)
    \o <<"\"", ",", "\"", "t", "o", "k", "e", "n", "_", "s", "e", "c", "r", "e", "t", "\"",
          ":", "\"">>
    \o JsonString(credential.TokenSecret) \o <<"\"", "}">>

\* The string read from a JSON string literal.
JsonRead(lit) ==
    [i \in 1..Len(lit) |-> IF lit[i] = EscapedReplacement THEN ReplacementRune ELSE lit[i]]

\* The position of the first quote of data at or after position i, 0 if none.
RECURSIVE QuoteFrom(_, _)
QuoteFrom(data, i) ==
    IF i > Len(data) THEN 0
    ELSE IF data[i] = "\"" THEN i ELSE QuoteFrom(data, i + 1)

\* json.Unmarshal(data, &tokens), line 84: the object json.Marshal writes
\* is read back; anything else in the file is a syntax error.
jsonUnmarshal(data) ==
    LET head == <<"{", "\"", "t", "o", "k", "e", "n", "\"", ":", "\"">>
        mid == <<"\"", ",", "\"", "t", "o", "k", "e", "n", "_", "s", "e", "c", "r", "e", "t", "\"",
          ":", "\"">>
        q1 == QuoteFrom(data, Len(head) + 1)
        q2 == QuoteFrom(data, q1 + Len(mid))
    IN  IF /\ Len(data) >= Len(head) + Len(mid) + 2
           /\ SubSeq(data, 1, Len(head)) = head
           /\ q1 # 0
           /\ q1 + Len(mid) - 1 <= Len(data)
           /\ SubSeq(data, q1, q1 + Len(mid) - 1) = mid
           /\ q2 # 0
           /\ q2 + 1 = Len(data)
           /\ data[Len(data)] = "}"
        THEN [err |-> "nil",
              tokens |-> [Token |-> JsonRead(SubSeq(data, Len(head) + 1, q1 - 1)),
                          TokenSecret |-> JsonRead(SubSeq(data, q1 + Len(mid), q2 - 1))]]
        ELSE [err |-> "SyntaxError", tokens |-> <<>>]

\* gcm.Seal(nonce, nonce, plaintext, nil): the nonce, then the ciphertext
\* with its authentication tag, which binds key, nonce and text.
Seal(key, nonce, plaintext) ==
    [i \in 1..NonceSize |-> nonce]
    \o << [text |-> plaintext, tag |-> <<key, nonce, plaintext>>] >>

\* encrypt, lines 126-143, with the nonce rand.Reader supplied.
encrypt(plaintext, key, nonce) ==
    IF ~ValidAESKey(key) THEN [err |-> "KeySizeError", data |-> <<>>]
    ELSE [err |-> "nil", data |-> Seal(key, nonce, plaintext)]

\* gcm.Open(nil, nonce, ciphertext, nil): the text, if the tag is the one
\* Seal computes for this key, nonce and text.
Open(key, nonce, ciphertext) ==
    IF /\ Len(ciphertext) = 1
       /\ DOMAIN ciphertext[1] = {"text", "tag"}
       /\ \A i \in 1..NonceSize : nonce[i] = nonce[1]
       /\ ciphertext[1].tag = <<key, nonce[1], ciphertext[1].text>>
    THEN [err |-> "nil", data |-> ciphertext[1].text]
    ELSE [err |-> "message authentication failed", data |-> <<>>]

\* decrypt without the length check of lines 157-159.
decryptUnchecked(ciphertext, key) ==
    IF ~ValidAESKey(key) THEN [err |-> "KeySizeError", data |-> <<>>]
    ELSE IF Len(ciphertext) < NonceSize THEN [err |-> "panic", data |-> <<>>]
    ELSE Open(key, SubSeq(ciphertext, 1, NonceSize),
              SubSeq(ciphertext, NonceSize + 1, Len(ciphertext)))

\* decrypt, lines 145-163.
decrypt(ciphertext, key) ==
    IF ~ValidAESKey(key) THEN [err |-> "KeySizeError", data |-> <<>>]
    ELSE IF Len(ciphertext) < NonceSize THEN [err |-> "ErrInvalidToken", data |-> <<>>]
    ELSE Open(key, SubSeq(ciphertext, 1, NonceSize),
              SubSeq(ciphertext, NonceSize + 1, Len(ciphertext)))

\* FileTokenStorage.Load, lines 64-89, of a store built with `key`.
FileLoad(file, key) ==
    IF ~file.present THEN [err |-> "ErrTokenNotFound", tokens |-> <<>>]
    ELSE IF key = NoKey THEN jsonUnmarshal(file.bytes)
    ELSE IF decrypt(file.bytes, key).err # "nil"
         THEN [err |-> decrypt(file.bytes, key).err, tokens |-> <<>>]
         ELSE jsonUnmarshal(decrypt(file.bytes, key).data)

\* FileTokenStorage.Save, lines 91-114: the error and the file afterwards.
FileSave(file, key, credential, nonce) ==
    IF key = NoKey THEN [err |-> "nil", file |-> WrittenFile(jsonMarshal(credential))]
    ELSE IF encrypt(jsonMarshal(credential), key, nonce).err # "nil"
         THEN [err |-> encrypt(jsonMarshal(credential), key, nonce).err, file |-> file]
         ELSE [err |-> "nil",
               file |-> WrittenFile(encrypt(jsonMarshal(credential), key, nonce).data)]

\* Clear that leaves the file in place.
FileClearKept(file) == file

\* FileTokenStorage.Clear, lines 116-124: os.Remove; a missing file is no
\* error.
FileClear(file) == AbsentFile

\* ------------------------------------- FileTokenStorage: the path of the file
\* A path is a sequence of symbols: "/" is the separator, "." the dot, every
\* other symbol stands for a name without separator.
Separator == "/"

\* strings.Split(s, "/"): the pieces between the separators.
RECURSIVE Split(_)
Split(s) ==
    IF \A i \in 1..Len(s) : s[i] # Separator THEN << s >>
    ELSE LET i == CHOOSE j \in 1..Len(s) :
                     s[j] = Separator /\ \A k \in 1..(j - 1) : s[k] # Separator
         IN  << SubSeq(s, 1, i - 1) >> \o Split(SubSeq(s, i + 1, Len(s)))

HasSuffix(s, suffix) ==
    /\ Len(suffix) <= Len(s)
    /\ SubSeq(s, Len(s) - Len(suffix) + 1, Len(s)) = suffix

\* strings.TrimSuffix.
TrimSuffix(s, suffix) ==
    IF HasSuffix(s, suffix) THEN SubSeq(s, 1, Len(s) - Len(suffix)) ELSE s

\* filepath.Dir, up to cleaning: all but the last element, "." for a bare
\* name and "/" for a file in the root.
FilepathDir(path) ==
    LET pieces == Split(path) IN
    IF Len(pieces) = 1 THEN <<".">>
    ELSE IF Len(path) - Len(pieces[Len(pieces)]) = 1 THEN <<Separator>>
    ELSE SubSeq(path, 1, Len(path) - Len(pieces[Len(pieces)]) - 1)

\* Save, line 108: the path with "/" and its last piece cut off the end.
SaveDir(path) ==
    LET pieces == Split(path) IN TrimSuffix(path, <<Separator>> \o pieces[Len(pieces)])

\* The file system node a path names: the root marker for an absolute path,
\* then its names; empty pieces and dots name nothing further.
Node(path) ==
    (IF path # <<>> /\ path[1] = Separator THEN << <<Separator>> >> ELSE << >>)
    \o SelectSeq(Split(path), LAMBDA piece : piece # <<>> /\ piece # <<".">>)

\* The root and the working directory are always there.
IsDir(disk, node) == node \in { << >>, << <<Separator>> >> } \/ node \in disk.dirs

IsFile(disk, node) == node \in disk.files

\* os.MkdirAll(path): every missing directory down to path is made; it fails
\* on the empty path and where a regular file is in the way.
MkdirAll(disk, path) ==
    LET node == Node(path)
        blocked == { i \in 1..Len(node) : IsFile(disk, SubSeq(node, 1, i)) }
        upTo == IF blocked = {} THEN Len(node)
                ELSE (CHOOSE i \in blocked : \A j \in blocked : i <= j) - 1
    IN  IF path = <<>> THEN [err |-> "ENOENT", disk |-> disk]
        ELSE [err |-> IF blocked = {} THEN "nil" ELSE "ENOTDIR",
              disk |-> [disk EXCEPT !.dirs = { d \in @ \cup { SubSeq(node, 1, i) : i \in 1..upTo } :
                                                ~IsDir(EmptyDisk, d) }]]

\* os.WriteFile(path): the parent must be a directory and the path none.
WriteFile(disk, path) ==
    LET node == Node(path) IN
    IF IsDir(disk, node) THEN [err |-> "EISDIR", disk |-> disk]
    ELSE IF ~IsDir(disk, SubSeq(node, 1, Len(node) - 1))
         THEN [err |-> "ENOENT", disk |-> disk]
    ELSE [err |-> "nil", disk |-> [disk EXCEPT !.files = @ \cup {node}]]

\* os.ReadFile(path) as Load sees it, lines 68-74.
ReadFile(disk, path) ==
    IF IsFile(disk, Node(path)) THEN "nil"
    ELSE IF IsDir(disk, Node(path)) THEN "EISDIR"
    ELSE "ErrTokenNotFound"

\* os.Remove(path) as Clear uses it, lines 120-123: a file or an empty
\* directory is removed, and a missing path is no error.
Remove(disk, path) ==
    LET node == Node(path)
        inside == { n \in disk.dirs \cup disk.files :
                        Len(n) > Len(node) /\ SubSeq(n, 1, Len(node)) = node }
    IN  IF IsFile(disk, node) THEN [err |-> "nil", disk |-> [disk EXCEPT !.files = @ \ {node}]]
        ELSE IF node \in disk.dirs
             THEN IF inside = {} THEN [err |-> "nil", disk |-> [disk EXCEPT !.dirs = @ \ {node}]]
                  ELSE [err |-> "ENOTEMPTY", disk |-> disk]
        ELSE IF IsDir(disk, node) THEN [err |-> "EBUSY", disk |-> disk]
        ELSE [err |-> "nil", disk |-> disk]

\* Save, lines 107-113: the directory is made and the file written.
PathSave(disk, path) ==
    LET made == MkdirAll(disk, SaveDir(path)) IN
    IF made.err # "nil" THEN made ELSE WriteFile(made.disk, path)

\* -------------------------------------------------- NewFileTokenStorage
\* The key length NewFileTokenStorage asks of a raw key; the key lengths
\* aes.NewCipher takes.
KeySize == 32
AESKeySizes == {16, 24, 32}

\* base64.StdEncoding.DecodeString succeeds on a text of whole groups of four
\* characters of the alphabet, the last one padded with at most two "=".
Decodable(setting) == setting.base64 /\ setting.len % 4 = 0

\* The number of bytes it decodes to.
DecodedLen(setting) == (setting.len \div 4) * 3 - setting.pad

\* NewFileTokenStorage that asks the key length of a decoded key too.
NewFileTokenStorageChecked(setting) ==
    LET len == IF Decodable(setting) THEN DecodedLen(setting) ELSE setting.len IN
    IF setting.len = 0 THEN [err |-> "nil", store |-> [built |-> TRUE, nil |-> TRUE, len |-> 0]]
    ELSE IF len # KeySize THEN [err |-> "encryption key must be 32 bytes", store |-> NoStore]
    ELSE [err |-> "nil", store |-> [built |-> TRUE, nil |-> FALSE, len |-> len]]

\* NewFileTokenStorage, lines 43-62: no key for the empty setting; the
\* decoded bytes if the setting is base64; otherwise the raw bytes, which
\* must be 32.
NewFileTokenStorage(setting) ==
    IF setting.len = 0 THEN [err |-> "nil", store |-> [built |-> TRUE, nil |-> TRUE, len |-> 0]]
    ELSE IF ~Decodable(setting)
         THEN IF setting.len # KeySize
              THEN [err |-> "encryption key must be 32 bytes", store |-> NoStore]
              ELSE [err |-> "nil", store |-> [built |-> TRUE, nil |-> FALSE, len |-> setting.len]]
    ELSE [err |-> "nil",
          store |-> [built |-> TRUE, nil |-> FALSE, len |-> DecodedLen(setting)]]

\* The key of the byte-level store model a built store's key stands for.
KeyOf(store) ==
    IF store.nil THEN NoKey
    ELSE IF store.len \in AESKeySizes THEN "k1"
    ELSE ShortKey

\* ----------------------------------------------- MemoryRequestTokenStore
\* Set, lines 117-124.
StoreSet(store, token, secret, t) ==
    [store EXCEPT ![token] = [secret |-> secret, expiresAt |-> t + requestTokenTTL]]

\* Get that does not look at the expiry time.
StoreHasForever(store, token, t) ==
    /\ token \in DOMAIN store
    /\ store[token] # NoEntry

\* Get, lines 126-139: is there a live entry for token at time t.
StoreHas(store, token, t) ==
    /\ token \in DOMAIN store
    /\ store[token] # NoEntry
    /\ ~(t > store[token].expiresAt)

\* Get deletes the entry it finds expired.
StoreAfterGet(store, token, t) ==
    IF token \in DOMAIN store /\ store[token] # NoEntry /\ t > store[token].expiresAt
    THEN [store EXCEPT ![token] = NoEntry]
    ELSE store

\* Delete that leaves the entry.
StoreDeleteNothing(store, token) == store

\* Delete, lines 141-145.
StoreDelete(store, token) ==
    IF token \in DOMAIN store THEN [store EXCEPT ![token] = NoEntry] ELSE store

\* Get, lines 126-139: what it returns and the map it leaves.
StoreGet(store, token, t) ==
    [err |-> IF token \notin DOMAIN store \/ store[token] = NoEntry THEN "token not found"
             ELSE IF t > store[token].expiresAt THEN "token expired"
             ELSE "nil",
     secret |-> IF StoreHas(store, token, t) THEN store[token].secret ELSE 0,
     store |-> StoreAfterGet(store, token, t)]

\* ------------------------------------------------ RedisRequestTokenStore
\* SET key secret with the store's ttl, lines 51-63.
RedisSet(db, token, secret, t) ==
    [db EXCEPT ![RedisKey(token)] = [secret |-> secret, expiresAt |-> t + redisTTL]]

\* GET on a server that drops a key at the instant its time to live ends.
RedisGetInclusive(db, token, t) ==
    LET key == RedisKey(token)
        live == key \in DOMAIN db /\ db[key] # NoEntry /\ ~(t >= db[key].expiresAt)
    IN  [err |-> IF live THEN "nil" ELSE "token not found",
         secret |-> IF live THEN db[key].secret ELSE 0,
         store |-> IF key \in DOMAIN db /\ ~live THEN [db EXCEPT ![key] = NoEntry] ELSE db]

\* GET key, lines 65-80: the server answers nil for a key that is not there
\* or whose time to live has run out, which it removes.
RedisGet(db, token, t) ==
    LET key == RedisKey(token)
        live == key \in DOMAIN db /\ db[key] # NoEntry /\ ~(t > db[key].expiresAt)
    IN  [err |-> IF live THEN "nil" ELSE "token not found",
         secret |-> IF live THEN db[key].secret ELSE 0,
         store |-> IF key \in DOMAIN db /\ ~live THEN [db EXCEPT ![key] = NoEntry] ELSE db]

\* DEL key, lines 82-93.
RedisDelete(db, token) ==
    IF RedisKey(token) \in DOMAIN db THEN [db EXCEPT ![RedisKey(token)] = NoEntry] ELSE db

\* ------------------------------------------------------------------ main
\* The credential the remote service hands out for request token k; the
\* credential a token file left by an earlier run holds is 1.
AccessTokenOf(k) == k + 1

\* main.go lines 64-82: with a loadable credential, build the client and the
\* collector and MustRegister it with the default registry.
MainRegister ==
    /\ pc[MainThread] = "idle"
    /\ IsAuthenticated
    /\ StartRegister(MainThread, "MustRegister")
    /\ client' = [client EXCEPT ![NextCollector] = tokenFile]
    /\ event' = NoEvent
    /\ UNCHANGED <<now, cache, collectorMu, collectorsByID, managerVars, fetcherArg, program,
                   serverVars>>

\* main.go lines 80-82: not authenticated, no collector.
MainSkip ==
    /\ pc[MainThread] = "idle"
    /\ ~IsAuthenticated
    /\ pc' = [pc EXCEPT ![MainThread] = "serving"]
    /\ event' = NoEvent
    /\ UNCHANGED <<now, collectorVars, constructed, registryVars, managerVars, stage,
                   callee, fetcherArg, program, serverVars>>

Serving == pc[MainThread] = "serving"

\* ---------------------------------------------------------------- Server
\* The callback URL handleAuthStart builds from the request, lines 107-118.
CallbackURL(scheme, host) == <<scheme, "://", host, "/zaim/auth/callback">>

\* handleAuthStart, lines 106-137: GetAuthorizationURL stores the callback
\* URL in the Manager's configuration, the remote service issues a request
\* token, and the token is stored with its secret.  The requests of the
\* server specification all name one host.
HandleAuthStart(h) ==
    /\ Serving
    /\ pc[h] = "idle"
    /\ issued < MaxHandshakes
    /\ issued' = issued + 1
    /\ callbackURL' = CallbackURL("http", "exporter")
    /\ tokens' = StoreSet(tokens, issued + 1, issued + 1, now)
    /\ event' = Returns(h, "handleAuthStart", "ok")
    /\ UNCHANGED <<now, collectorVars, constructed, registryVars, managerVars, threadVars,
                   tokenFile, storedFile, filepath, fs, keySetting, encryptionKey, redis,
                   lastSet, exchanges, req>>

\* handleAuthStart, lines 120-125: the request-token call fails.
HandleAuthStartError(h) ==
    /\ Serving
    /\ pc[h] = "idle"
    /\ callbackURL' = CallbackURL("http", "exporter")
    /\ event' = Returns(h, "handleAuthStart", "error")
    /\ UNCHANGED <<now, collectorVars, constructed, registryVars, managerVars, threadVars,
                   tokenFile, storedFile, filepath, fs, keySetting, encryptionKey, tokens,
                   redis, lastSet, issued,
                   exchanges, req>>

\* handleAuthCallback, lines 140-159: the parameters are checked and the
\* request secret is looked up.
HandleAuthCallback(h, oauthToken, oauthVerifier) ==
    /\ Serving
    /\ pc[h] = "idle"
    /\ IF oauthToken = 0 \/ oauthVerifier = ""
       THEN /\ event' = Returns(h, "handleAuthCallback", "bad request")
            /\ UNCHANGED <<pc, req, tokens>>
       ELSE /\ tokens' = StoreAfterGet(tokens, oauthToken, now)
            /\ IF StoreHas(tokens, oauthToken, now)
               THEN /\ pc' = [pc EXCEPT ![h] = "HandleCallback"]
                    /\ req' = [req EXCEPT ![h] = [NoRequest EXCEPT
                                                     !.token = oauthToken,
                                                     !.secret = tokens[oauthToken].secret,
                                                     !.verifier = oauthVerifier]]
                    /\ event' = NoEvent
               ELSE /\ event' = Returns(h, "handleAuthCallback", "no request token")
                    /\ UNCHANGED <<pc, req>>
    /\ UNCHANGED <<now, collectorVars, constructed, registryVars, managerVars, stage, callee,
                   fetcherArg, program, tokenFile, storedFile, filepath, fs, keySetting,
                   encryptionKey, redis, lastSet,
                   issued,
                   callbackURL,
                   exchanges>>

\* A failed exchange after which the tokens at hand are saved all the same.
HandleCallbackErrorSaves(h) ==
    /\ pc[h] = "HandleCallback"
    /\ exchanges[req[h].token] < MaxExchanges
    /\ exchanges' = [exchanges EXCEPT ![req[h].token] = @ + 1]
    /\ tokenFile' = Save(tokenFile, AccessTokenOf(req[h].token))
    /\ pc' = [pc EXCEPT ![h] = "idle"]
    /\ req' = [req EXCEPT ![h] = NoRequest]
    /\ event' = Returns(h, "handleAuthCallback", "exchange failed")
    /\ UNCHANGED <<now, collectorVars, constructed, registryVars, managerVars, stage, callee,
                   fetcherArg, program, storedFile, filepath, fs, keySetting, encryptionKey,
                   tokens, redis, lastSet, issued,
                   callbackURL>>

\* Lines 161-166 with auth.Manager.HandleCallback, lines 208-227: the token
\* exchange is refused by the remote service or fails.
HandleCallbackError(h) ==
    /\ pc[h] = "HandleCallback"
    /\ exchanges[req[h].token] < MaxExchanges
    /\ exchanges' = [exchanges EXCEPT ![req[h].token] = @ + 1]
    /\ pc' = [pc EXCEPT ![h] = "idle"]
    /\ req' = [req EXCEPT ![h] = NoRequest]
    /\ event' = Returns(h, "handleAuthCallback", "exchange failed")
    /\ UNCHANGED <<now, collectorVars, constructed, registryVars, managerVars, stage, callee,
                   fetcherArg, program, tokenFile, storedFile, filepath, fs, keySetting,
                   encryptionKey, tokens, redis,
                   lastSet, issued,
                   callbackURL>>

\* The exchange succeeds (the verifier is the one the user was given) and the
\* access tokens are saved.
HandleCallback(h) ==
    /\ pc[h] = "HandleCallback"
    /\ req[h].verifier = "good"
    /\ exchanges[req[h].token] < MaxExchanges
    /\ exchanges' = [exchanges EXCEPT ![req[h].token] = @ + 1]
    /\ tokenFile' = Save(tokenFile, AccessTokenOf(req[h].token))
    /\ pc' = [pc EXCEPT ![h] = "Delete"]
    /\ event' = NoEvent
    /\ UNCHANGED <<now, collectorVars, constructed, registryVars, managerVars, stage, callee,
                   fetcherArg, program, storedFile, filepath, fs, keySetting, encryptionKey,
                   tokens, redis, lastSet, issued,
                   callbackURL, req>>

\* Lines 168-173: the request token is deleted and the success page sent.
HandleAuthCallbackDone(h) ==
    /\ pc[h] = "Delete"
    /\ tokens' = StoreDelete(tokens, req[h].token)
    /\ pc' = [pc EXCEPT ![h] = "idle"]
    /\ req' = [req EXCEPT ![h] = NoRequest]
    /\ event' = [Returns(h, "handleAuthCallback", "ok") EXCEPT !.data = <<req[h].token>>]
    /\ UNCHANGED <<now, collectorVars, constructed, registryVars, managerVars, stage, callee,
                   fetcherArg, program, tokenFile, storedFile, filepath, fs, keySetting,
                   encryptionKey, redis, lastSet,
                   issued,
                   callbackURL,
                   exchanges>>

\* handleAuthReset, lines 176-188, with ResetAuth, lines 243-245.
HandleAuthReset(h) ==
    /\ Serving
    /\ pc[h] = "idle"
    /\ tokenFile' = Clear(tokenFile)
    /\ event' = Returns(h, "handleAuthReset", "ok")
    /\ UNCHANGED <<now, collectorVars, constructed, registryVars, managerVars, threadVars,
                   storedFile, filepath, fs, keySetting, encryptionKey, tokens, redis,
                   lastSet, issued, callbackURL,
                   exchanges, req>>

\* -------------------------------------------------------- specifications
\* The Manager driven by concurrent callers, with scrapes of its registry.
Next ==
    \/ \E t \in Callers, f \in CallerFetchers : RegisterCollector(t, f)
    \/ \E t \in Callers : UnregisterCollector(t)
    \/ \E t \in Scrapers : Gather(t)
    \/ \E t \in Threads : GetTransactionsRLock(t)
    \/ \E t \in Threads : GetTransactionsLock(t)
    \/ \E t \in Threads : GetTransactionsFetchError(t)
    \/ \E t \in Threads : GetTransactionsFetch(t)
    \/ Tick

Spec == Init /\ [][Next]_vars

\* The exporter process: main, then the HTTP handlers and the scrapes.  The
\* token file may have been left by an earlier run.
InitServer ==
    /\ now = 0
    /\ client = [c \in Collectors |-> NoFetcher]
    /\ cache = [c \in Collectors |-> NoCache]
    /\ collectorMu = [c \in Collectors |-> NoThread]
    /\ constructed = 0
    /\ collectorsByID = {}
    /\ regMtx = NoThread
    /\ managerMu = NoThread
    /\ currentCollector = NoCollector
    /\ pc = [t \in Threads |-> "idle"]
    /\ stage = [t \in Threads |-> "none"]
    /\ callee = [t \in Threads |-> NoCollector]
    /\ fetcherArg = [t \in Threads |-> NoFetcher]
    /\ program = [t \in Threads |-> AnyCalls]
    /\ tokenFile \in {NoFile, 1}
    /\ storedFile = AbsentFile
    /\ filepath = NoPath
    /\ fs = EmptyDisk
    /\ keySetting = NoSetting
    /\ encryptionKey = NoStore
    /\ tokens = [k \in RequestTokens |-> NoEntry]
    /\ redis = EmptyRedis
    /\ lastSet = NoCalls
    /\ issued = 0
    /\ callbackURL = NoURL
    /\ exchanges = [k \in RequestTokens |-> 0]
    /\ req = [h \in Handlers |-> NoRequest]
    /\ event = NoEvent

NextServer ==
    \/ MainRegister
    \/ MainSkip
    \/ \E h \in Handlers : HandleAuthStart(h)
    \/ \E h \in Handlers : HandleAuthStartError(h)
    \/ \E h \in Handlers, k \in 0..MaxHandshakes, v \in {"", "good", "bad"} :
          HandleAuthCallback(h, k, v)
    \/ \E h \in Handlers : HandleCallbackError(h)
    \/ \E h \in Handlers : HandleCallback(h)
    \/ \E h \in Handlers : HandleAuthCallbackDone(h)
    \/ \E h \in Handlers : HandleAuthReset(h)
    \/ \E t \in Scrapers : Gather(t)
    \/ \E t \in Threads : GetTransactionsRLock(t)
    \/ \E t \in Threads : GetTransactionsLock(t)
    \/ \E t \in Threads : GetTransactionsFetchError(t)
    \/ \E t \in Threads : GetTransactionsFetch(t)
    \/ Tick

SpecServer == InitServer /\ [][NextServer]_vars

\* One collector, registered by RegisterCollector(1) at time 0, with
\* concurrent Collect calls: the state RegisterCollector leaves depends on
\* what the fetch of its Describe returned.
InitCollect ==
    /\ now = 0
    /\ client = [c \in Collectors |-> IF c = 1 THEN 1 ELSE NoFetcher]
    /\ collectorMu = [c \in Collectors |-> NoThread]
    /\ constructed = 1
    /\ \/ /\ cache = [c \in Collectors |-> NoCache]
          /\ collectorsByID = RegistryRegister({}, Descs(Collect(TRUE, <<>>, 0)), 1)
       \/ \E transactions \in FetchData(1) :
             /\ cache = [c \in Collectors |->
                           IF c = 1 THEN Refreshed(NoCache, transactions, 0) ELSE NoCache]
             /\ collectorsByID =
                   RegistryRegister({}, Descs(Collect(FALSE, transactions, 0)), 1)
    /\ regMtx = NoThread
    /\ managerMu = NoThread
    /\ currentCollector = 1
    /\ pc = [t \in Threads |-> "idle"]
    /\ stage = [t \in Threads |-> "none"]
    /\ callee = [t \in Threads |-> NoCollector]
    /\ fetcherArg = [t \in Threads |-> NoFetcher]
    /\ program = [t \in Threads |-> AnyCalls]
    /\ tokenFile = NoFile
    /\ storedFile = AbsentFile
    /\ filepath = NoPath
    /\ fs = EmptyDisk
    /\ keySetting = NoSetting
    /\ encryptionKey = NoStore
    /\ tokens = [k \in RequestTokens |-> NoEntry]
    /\ redis = EmptyRedis
    /\ lastSet = NoCalls
    /\ issued = 0
    /\ callbackURL = NoURL
    /\ exchanges = [k \in RequestTokens |-> 0]
    /\ req = [h \in Handlers |-> NoRequest]
    /\ event = NoEvent

NextCollect ==
    \/ \E t \in CollectCallers : Gather(t)
    \/ \E t \in CollectCallers : GetTransactionsRLock(t)
    \/ \E t \in CollectCallers : GetTransactionsLock(t)
    \/ \E t \in CollectCallers : GetTransactionsFetchError(t)
    \/ \E t \in CollectCallers : GetTransactionsFetch(t)
    \/ Tick

SpecCollect == InitCollect /\ [][NextCollect]_vars

\* The credential store alone: the token file may hold anything an earlier
\* run or the file system left there, and stores built with any key save,
\* load and clear it.
Truncations(blob) == { SubSeq(blob, 1, m) : m \in {0, NonceSize - 1, NonceSize} \cap 0..Len(blob) }

SavedFiles ==
    { FileSave(AbsentFile, k, c, n).file : k \in {NoKey, "k1", "k2"}, c \in OAuthTokens,
                                       n \in Nonces }

StoredFiles ==
    {AbsentFile} \cup SavedFiles
    \cup { WrittenFile(b) : b \in UNION { Truncations(f.bytes) : f \in SavedFiles } }
    \cup { WrittenFile(SubSeq(f.bytes, 1, Len(f.bytes) - 1)) : f \in SavedFiles }
    \cup { WrittenFile([f.bytes EXCEPT ![1] = "n0"]) : f \in SavedFiles }

InitStorage ==
    /\ now = 0
    /\ client = [c \in Collectors |-> NoFetcher]
    /\ cache = [c \in Collectors |-> NoCache]
    /\ collectorMu = [c \in Collectors |-> NoThread]
    /\ constructed = 0
    /\ collectorsByID = {}
    /\ regMtx = NoThread
    /\ managerMu = NoThread
    /\ currentCollector = NoCollector
    /\ pc = [t \in Threads |-> "idle"]
    /\ stage = [t \in Threads |-> "none"]
    /\ callee = [t \in Threads |-> NoCollector]
    /\ fetcherArg = [t \in Threads |-> NoFetcher]
    /\ program = [t \in Threads |-> AnyCalls]
    /\ tokenFile = NoFile
    /\ storedFile \in StoredFiles
    /\ filepath = NoPath
    /\ fs = EmptyDisk
    /\ keySetting = NoSetting
    /\ encryptionKey = NoStore
    /\ tokens = [k \in RequestTokens |-> NoEntry]
    /\ redis = EmptyRedis
    /\ lastSet = NoCalls
    /\ issued = 0
    /\ callbackURL = NoURL
    /\ exchanges = [k \in RequestTokens |-> 0]
    /\ req = [h \in Handlers |-> NoRequest]
    /\ event = NoEvent

\* What a store operation returned: the error, the key of the store and the
\* credential passed or loaded, and the file as a Load or Clear found it.
StorageReturns(op, err, key, credential) ==
    [Returns(MainThread, op, err) EXCEPT !.data = <<key, credential>>, !.before = storedFile]

StorageSave(key, credential, nonce) ==
    /\ storedFile' = FileSave(storedFile, key, credential, nonce).file
    /\ event' = [StorageReturns("Save", FileSave(storedFile, key, credential, nonce).err,
                                key, credential) EXCEPT !.before = NoCache]
    /\ UNCHANGED <<now, collectorVars, constructed, registryVars, managerVars, threadVars,
                   tokenFile, filepath, fs, keySetting, encryptionKey, tokens, redis, lastSet,
                   issued, callbackURL,
                   exchanges, req>>

StorageLoad(key) ==
    /\ event' = StorageReturns("Load", FileLoad(storedFile, key).err, key,
                               FileLoad(storedFile, key).tokens)
    /\ UNCHANGED <<now, collectorVars, constructed, registryVars, managerVars, threadVars,
                   serverVars>>

StorageClear ==
    /\ storedFile' = FileClear(storedFile)
    /\ event' = StorageReturns("Clear", "nil", NoKey, <<>>)
    /\ UNCHANGED <<now, collectorVars, constructed, registryVars, managerVars, threadVars,
                   tokenFile, filepath, fs, keySetting, encryptionKey, tokens, redis, lastSet,
                   issued, callbackURL,
                   exchanges, req>>

NextStorage ==
    \/ \E k \in Keys, c \in OAuthTokens, n \in Nonces : StorageSave(k, c, n)
    \/ \E k \in Keys : StorageLoad(k)
    \/ StorageClear

SpecStorage == InitStorage /\ [][NextStorage]_vars

\* The three lock domains together: Manager operations and scrapes as in
\* Spec, IsRegistered calls, and handler threads that load, save and clear
\* the credential under FileTokenStorage.mu.  A thread holds that lock while
\* it is inside one of the three operations.  The order in which locks are
\* taken does not depend on the clock, which stands still here.
StorageOps == {"Load", "Save", "Clear"}

StorageReaders == { h \in Handlers : pc[h] = "Load" }

StorageWriters == { h \in Handlers : pc[h] \in {"Save", "Clear"} }

\* s.mu.RLock() for Load, s.mu.Lock() for Save and Clear (lines 65, 92, 117).
StorageLock(h, op) ==
    /\ pc[h] = "idle"
    /\ StorageWriters = {}
    /\ op # "Load" => StorageReaders = {}
    /\ pc' = [pc EXCEPT ![h] = op]
    /\ event' = NoEvent
    /\ UNCHANGED <<now, collectorVars, constructed, registryVars, managerVars, stage, callee,
                   fetcherArg, program, serverVars>>

\* The body of the operation and the deferred unlock.
StorageUnlock(h) ==
    /\ pc[h] \in StorageOps
    /\ LET credential == [Token |-> <<"a">>, TokenSecret |-> <<"a">>]
           saved == FileSave(storedFile, "k1", credential, "n1")
       IN  CASE pc[h] = "Load" ->
                  /\ event' = [StorageReturns("Load", FileLoad(storedFile, "k1").err, "k1",
                                              FileLoad(storedFile, "k1").tokens)
                                 EXCEPT !.thread = h]
                  /\ UNCHANGED storedFile
             [] pc[h] = "Save" ->
                  /\ event' = [StorageReturns("Save", saved.err, "k1", credential)
                                 EXCEPT !.thread = h]
                  /\ storedFile' = saved.file
             [] OTHER ->
                  /\ event' = [StorageReturns("Clear", "nil", NoKey, <<>>) EXCEPT !.thread = h]
                  /\ storedFile' = FileClear(storedFile)
    /\ pc' = [pc EXCEPT ![h] = "idle"]
    /\ UNCHANGED <<now, collectorVars, constructed, registryVars, managerVars, stage, callee,
                   fetcherArg, program, tokenFile, filepath, fs, keySetting, encryptionKey,
                   tokens, redis, lastSet,
                   issued, callbackURL,
                   exchanges, req>>

\* Manager.IsRegistered, lines 71-75, under m.mu.RLock().
IsRegisteredCall(t) ==
    /\ pc[t] = "idle"
    /\ managerMu = NoThread
    /\ event' = Returns(t, "IsRegistered", IF IsRegistered THEN "true" ELSE "false")
    /\ UNCHANGED <<now, collectorVars, constructed, registryVars, managerVars, threadVars,
                   serverVars>>

NextLocks ==
    \/ \E t \in Callers, f \in CallerFetchers : RegisterCollector(t, f)
    \/ \E t \in Callers : UnregisterCollector(t)
    \/ \E t \in Callers : IsRegisteredCall(t)
    \/ \E t \in Scrapers : Gather(t)
    \/ \E t \in Threads : GetTransactionsRLock(t)
    \/ \E t \in Threads : GetTransactionsLock(t)
    \/ \E t \in Threads : GetTransactionsFetchError(t)
    \/ \E t \in Threads : GetTransactionsFetch(t)
    \/ \E h \in Handlers, op \in StorageOps : StorageLock(h, op)
    \/ \E h \in Handlers : StorageUnlock(h)

SpecLocks == Init /\ [][NextLocks]_vars

\* One instance's calls on a handshake store, made on an in-memory store and
\* on a Redis store side by side, with the clock running past the time to
\* live.
InitHandshake ==
    /\ now = 0
    /\ client = [c \in Collectors |-> NoFetcher]
    /\ cache = [c \in Collectors |-> NoCache]
    /\ collectorMu = [c \in Collectors |-> NoThread]
    /\ constructed = 0
    /\ collectorsByID = {}
    /\ regMtx = NoThread
    /\ managerMu = NoThread
    /\ currentCollector = NoCollector
    /\ pc = [t \in Threads |-> "idle"]
    /\ stage = [t \in Threads |-> "none"]
    /\ callee = [t \in Threads |-> NoCollector]
    /\ fetcherArg = [t \in Threads |-> NoFetcher]
    /\ program = [t \in Threads |-> AnyCalls]
    /\ tokenFile = NoFile
    /\ storedFile = AbsentFile
    /\ filepath = NoPath
    /\ fs = EmptyDisk
    /\ keySetting = NoSetting
    /\ encryptionKey = NoStore
    /\ tokens = [k \in HandshakeIds |-> NoEntry]
    /\ redis = EmptyRedis
    /\ lastSet = NoCalls
    /\ issued = 0
    /\ callbackURL = NoURL
    /\ exchanges = [k \in RequestTokens |-> 0]
    /\ req = [h \in Handlers |-> NoRequest]
    /\ event = NoEvent

\* What a store call returned: the id passed, then the in-memory store's
\* answer and the Redis store's answer, each an error and a secret.
HandshakeReturns(op, token, memory, network) ==
    [Returns(MainThread, op, memory.err) EXCEPT
        !.data = << token, [err |-> memory.err, secret |-> memory.secret],
                    [err |-> network.err, secret |-> network.secret] >>,
        !.at = now]

HandshakeSet(token, secret) ==
    /\ tokens' = StoreSet(tokens, token, secret, now)
    /\ redis' = RedisSet(redis, token, secret, now)
    /\ lastSet' = [lastSet EXCEPT ![token] = [secret |-> secret, at |-> now]]
    /\ event' = HandshakeReturns("Set", token, [err |-> "nil", secret |-> secret],
                                 [err |-> "nil", secret |-> secret])
    /\ UNCHANGED <<now, collectorVars, constructed, registryVars, managerVars, threadVars,
                   tokenFile, storedFile, filepath, fs, keySetting, encryptionKey, issued,
                   callbackURL, exchanges, req>>

HandshakeGet(token) ==
    /\ tokens' = StoreGet(tokens, token, now).store
    /\ redis' = RedisGet(redis, token, now).store
    /\ event' = HandshakeReturns("Get", token, StoreGet(tokens, token, now),
                                 RedisGet(redis, token, now))
    /\ UNCHANGED <<now, collectorVars, constructed, registryVars, managerVars, threadVars,
                   tokenFile, storedFile, filepath, fs, keySetting, encryptionKey, lastSet,
                   issued, callbackURL,
                   exchanges, req>>

HandshakeDelete(token) ==
    /\ tokens' = StoreDelete(tokens, token)
    /\ redis' = RedisDelete(redis, token)
    /\ lastSet' = [lastSet EXCEPT ![token] = NoSet]
    /\ event' = HandshakeReturns("Delete", token, [err |-> "nil", secret |-> 0],
                                 [err |-> "nil", secret |-> 0])
    /\ UNCHANGED <<now, collectorVars, constructed, registryVars, managerVars, threadVars,
                   tokenFile, storedFile, filepath, fs, keySetting, encryptionKey, issued,
                   callbackURL, exchanges, req>>

\* A minute passes.
HandshakeTick ==
    /\ now < requestTokenTTL + MaxWait
    /\ now' = now + 1
    /\ event' = NoEvent
    /\ UNCHANGED <<collectorVars, constructed, registryVars, managerVars, threadVars,
                   serverVars>>

NextHandshake ==
    \/ \E token \in HandshakeIds, secret \in {1, 2} : HandshakeSet(token, secret)
    \/ \E token \in HandshakeIds : HandshakeGet(token)
    \/ \E token \in HandshakeIds : HandshakeDelete(token)
    \/ HandshakeTick

SpecHandshake == InitHandshake /\ [][NextHandshake]_vars

\* Request handlers calling the in-memory store concurrently, as the HTTP
\* server runs them: each call works on the map s.tokens between the two
\* steps below, and nothing in Set, Get or Delete makes a handler wait.
\* The calls overlap within one instant of the clock.
MapOps == {"map.Set", "map.Get", "map.Delete"}

\* A handler enters Set, Get or Delete (lines 117, 126, 141).
MapEnter(h, op, token, secret) ==
    /\ pc[h] = "idle"
    /\ pc' = [pc EXCEPT ![h] = op]
    /\ req' = [req EXCEPT ![h] = [NoRequest EXCEPT !.token = token, !.secret = secret]]
    /\ event' = NoEvent
    /\ UNCHANGED <<now, collectorVars, constructed, registryVars, managerVars, stage, callee,
                   fetcherArg, program, tokenFile, storedFile, filepath, fs, keySetting,
                   encryptionKey, tokens, redis,
                   lastSet, issued,
                   callbackURL,
                   exchanges>>

\* The handler's map access completes and the call returns.  An access that
\* overlaps another handler's while one of the two writes is a data race:
\* the call may go through, its write may be lost, or the runtime stops the
\* process ("fatal error: concurrent map writes").
MapLeave(h) ==
    /\ pc[h] \in MapOps
    /\ LET token == req[h].token
           got == StoreGet(tokens, token, now)
           writes(g) == pc[g] \in {"map.Set", "map.Delete"}
                        \/ (pc[g] = "map.Get" /\ StoreGet(tokens, req[g].token, now).store # tokens)
           race == \E g \in Handlers \ {h} : pc[g] \in MapOps /\ (writes(h) \/ writes(g))
           after == CASE pc[h] = "map.Set" -> StoreSet(tokens, token, req[h].secret, now)
                      [] pc[h] = "map.Get" -> got.store
                      [] OTHER -> StoreDelete(tokens, token)
           result == IF pc[h] = "map.Get" THEN [err |-> got.err, secret |-> got.secret]
                     ELSE [err |-> "nil", secret |-> 0]
       IN  \/ /\ tokens' = after
              /\ event' = [Returns(h, pc[h], result.err) EXCEPT !.data = <<token, result>>]
              /\ pc' = [pc EXCEPT ![h] = "idle"]
           \/ /\ race
              /\ tokens' = tokens
              /\ event' = [Returns(h, pc[h], result.err) EXCEPT !.data = <<token, result>>,
                                                               !.via = "lost"]
              /\ pc' = [pc EXCEPT ![h] = "idle"]
           \/ /\ race
              /\ tokens' = tokens
              /\ event' = Returns(h, pc[h], "fatal error")
              /\ pc' = [t \in Threads |-> "exit"]
    /\ req' = [req EXCEPT ![h] = NoRequest]
    /\ UNCHANGED <<now, collectorVars, constructed, registryVars, managerVars, stage, callee,
                   fetcherArg, program, tokenFile, storedFile, filepath, fs, keySetting,
                   encryptionKey, redis, lastSet,
                   issued,
                   callbackURL,
                   exchanges>>

NextMap ==
    \/ \E h \in Handlers, token \in HandshakeIds, secret \in {1, 2} :
          MapEnter(h, "map.Set", token, secret)
    \/ \E h \in Handlers, op \in {"map.Get", "map.Delete"}, token \in HandshakeIds :
          MapEnter(h, op, token, 0)
    \/ \E h \in Handlers : MapLeave(h)

SpecMap == InitHandshake /\ [][NextMap]_vars

\* The Aggregator's functions applied to the transaction lists a fetch can
\* have left in the cache, at an hour when Tokyo and UTC are on the same day
\* and at one when Tokyo is a day ahead.
Transactions ==
    [id : {1}, mode : {"payment", "income", "transfer"}, amount : {500, 1000},
     date : {-1, 0, 1},
     created : {Unparsable, [parsable |-> TRUE, day |-> 0, hour |-> 9, min |-> 59],
                [parsable |-> TRUE, day |-> 0, hour |-> 10, min |-> 5]}]

TransactionLists == UNION { [1..n -> Transactions] : n \in 0..MaxTx }

InitAggregate ==
    /\ now \in {0, 1440 - TokyoOffset}
    /\ client = [c \in Collectors |-> IF c = 1 THEN 1 ELSE NoFetcher]
    /\ \E transactions \in TransactionLists :
          cache = [c \in Collectors |->
                     IF c = 1 THEN Refreshed(NoCache, transactions, now) ELSE NoCache]
    /\ collectorMu = [c \in Collectors |-> NoThread]
    /\ constructed = 1
    /\ collectorsByID = {}
    /\ regMtx = NoThread
    /\ managerMu = NoThread
    /\ currentCollector = NoCollector
    /\ pc = [t \in Threads |-> "idle"]
    /\ stage = [t \in Threads |-> "none"]
    /\ callee = [t \in Threads |-> NoCollector]
    /\ fetcherArg = [t \in Threads |-> NoFetcher]
    /\ program = [t \in Threads |-> AnyCalls]
    /\ tokenFile = NoFile
    /\ storedFile = AbsentFile
    /\ filepath = NoPath
    /\ fs = EmptyDisk
    /\ keySetting = NoSetting
    /\ encryptionKey = NoStore
    /\ tokens = [k \in RequestTokens |-> NoEntry]
    /\ redis = EmptyRedis
    /\ lastSet = NoCalls
    /\ issued = 0
    /\ callbackURL = NoURL
    /\ exchanges = [k \in RequestTokens |-> 0]
    /\ req = [h \in Handlers |-> NoRequest]
    /\ event = NoEvent

\* A call of one of the Aggregator's functions on the cached transactions,
\* or of the part of Collect that follows getTransactions (part_001 lines
\* 54-98): the arguments and the value returned.
AggregatorCall(fn) ==
    LET transactions == cache[1].data IN
    /\ event' = [Returns(MainThread, fn, "ok") EXCEPT
                    !.data = transactions,
                    !.at = now,
                    !.metrics = CASE fn = "AggregateByHour" -> AggregateByHour(transactions)
                                  [] fn = "AggregateByDay" -> AggregateByDay(transactions)
                                  [] fn = "Collect" -> Collect(FALSE, transactions, now)
                                  [] OTHER -> { GetTodayTotal(transactions, now) }]
    /\ UNCHANGED <<now, collectorVars, constructed, registryVars, managerVars, threadVars,
                   serverVars>>

NextAggregate ==
    \E fn \in {"AggregateByHour", "AggregateByDay", "GetTodayTotal", "Collect"} :
        AggregatorCall(fn)

SpecAggregate == InitAggregate /\ [][NextAggregate]_vars

\* auth.Manager.GetAuthorizationURL called by concurrent handleAuthStart
\* requests that arrive for different hosts.
Hosts == {"a.example", "b.example"}

\* Line 188: the callback URL is stored in the Manager's configuration.
GetAuthorizationURLSet(h, host) ==
    /\ pc[h] = "idle"
    /\ callbackURL' = CallbackURL("https", host)
    /\ req' = [req EXCEPT ![h] = [NoRequest EXCEPT !.host = host]]
    /\ pc' = [pc EXCEPT ![h] = "RequestToken"]
    /\ event' = NoEvent
    /\ UNCHANGED <<now, collectorVars, constructed, registryVars, managerVars, stage, callee,
                   fetcherArg, program, tokenFile, storedFile, filepath, fs, keySetting,
                   encryptionKey, tokens, redis,
                   lastSet, issued,
                   exchanges>>

\* Lines 189-205: config.RequestToken() sends the callback URL it reads from
\* the configuration; the event records the URL the handler passed and the
\* URL the request token was asked for.  A read that overlaps another
\* handler's write of the field is a data race and may also see a value
\* that is neither URL.
GetAuthorizationURLRequest(h, failed) ==
    /\ pc[h] = "RequestToken"
    /\ failed \/ issued < MaxHandshakes
    /\ issued' = IF failed THEN issued ELSE issued + 1
    /\ \E sent \in {callbackURL}
                    \cup (IF callbackURL # CallbackURL("https", req[h].host)
                          THEN {<<"torn">>} ELSE {}) :
          event' = [Returns(h, "GetAuthorizationURL", IF failed THEN "error" ELSE "nil")
                      EXCEPT !.data = <<CallbackURL("https", req[h].host), sent>>]
    /\ pc' = [pc EXCEPT ![h] = "idle"]
    /\ req' = [req EXCEPT ![h] = NoRequest]
    /\ UNCHANGED <<now, collectorVars, constructed, registryVars, managerVars, stage, callee,
                   fetcherArg, program, tokenFile, storedFile, filepath, fs, keySetting,
                   encryptionKey, tokens, redis,
                   lastSet,
                   callbackURL,
                   exchanges>>

NextAuthorize ==
    \/ \E h \in Handlers, host \in Hosts : GetAuthorizationURLSet(h, host)
    \/ \E h \in Handlers, failed \in BOOLEAN : GetAuthorizationURLRequest(h, failed)

SpecAuthorize == Init /\ [][NextAuthorize]_vars

\* TestManager_ConcurrentAccess: every goroutine calls RegisterCollector and
\* then UnregisterCollector on the one Manager; nothing scrapes.
ConcurrentAccess == <<"RegisterCollector", "UnregisterCollector">>

InitConcurrentAccess ==
    /\ now = 0
    /\ client = [c \in Collectors |-> NoFetcher]
    /\ cache = [c \in Collectors |-> NoCache]
    /\ collectorMu = [c \in Collectors |-> NoThread]
    /\ constructed = 0
    /\ collectorsByID = {}
    /\ regMtx = NoThread
    /\ managerMu = NoThread
    /\ currentCollector = NoCollector
    /\ pc = [t \in Threads |-> "idle"]
    /\ stage = [t \in Threads |-> "none"]
    /\ callee = [t \in Threads |-> NoCollector]
    /\ fetcherArg = [t \in Threads |-> NoFetcher]
    /\ program = [t \in Threads |-> IF t \in Callers THEN ConcurrentAccess ELSE <<>>]
    /\ tokenFile = NoFile
    /\ storedFile = AbsentFile
    /\ filepath = NoPath
    /\ fs = EmptyDisk
    /\ keySetting = NoSetting
    /\ encryptionKey = NoStore
    /\ tokens = [k \in RequestTokens |-> NoEntry]
    /\ redis = EmptyRedis
    /\ lastSet = NoCalls
    /\ issued = 0
    /\ callbackURL = NoURL
    /\ exchanges = [k \in RequestTokens |-> 0]
    /\ req = [h \in Handlers |-> NoRequest]
    /\ event = NoEvent

NextConcurrentAccess ==
    \/ \E t \in Callers, f \in CallerFetchers : RegisterCollector(t, f)
    \/ \E t \in Callers : UnregisterCollector(t)
    \/ \E t \in Callers : GetTransactionsRLock(t)
    \/ \E t \in Callers : GetTransactionsLock(t)
    \/ \E t \in Callers : GetTransactionsFetchError(t)
    \/ \E t \in Callers : GetTransactionsFetch(t)
    \/ Tick

SpecConcurrentAccess == InitConcurrentAccess /\ [][NextConcurrentAccess]_vars

\* The login handlers alone, on a serving exporter without credential, for
\* longer than a request token lives.
InitLogin ==
    /\ now = 0
    /\ client = [c \in Collectors |-> NoFetcher]
    /\ cache = [c \in Collectors |-> NoCache]
    /\ collectorMu = [c \in Collectors |-> NoThread]
    /\ constructed = 0
    /\ collectorsByID = {}
    /\ regMtx = NoThread
    /\ managerMu = NoThread
    /\ currentCollector = NoCollector
    /\ pc = [t \in Threads |-> IF t = MainThread THEN "serving" ELSE "idle"]
    /\ stage = [t \in Threads |-> "none"]
    /\ callee = [t \in Threads |-> NoCollector]
    /\ fetcherArg = [t \in Threads |-> NoFetcher]
    /\ program = [t \in Threads |-> AnyCalls]
    /\ tokenFile = NoFile
    /\ storedFile = AbsentFile
    /\ filepath = NoPath
    /\ fs = EmptyDisk
    /\ keySetting = NoSetting
    /\ encryptionKey = NoStore
    /\ tokens = [k \in RequestTokens |-> NoEntry]
    /\ redis = EmptyRedis
    /\ lastSet = NoCalls
    /\ issued = 0
    /\ callbackURL = NoURL
    /\ exchanges = [k \in RequestTokens |-> 0]
    /\ req = [h \in Handlers |-> NoRequest]
    /\ event = NoEvent

NextLogin ==
    \/ \E h \in Handlers : HandleAuthStart(h)
    \/ \E h \in Handlers : HandleAuthStartError(h)
    \/ \E h \in Handlers, k \in 0..MaxHandshakes, v \in {"", "good", "bad"} :
          HandleAuthCallback(h, k, v)
    \/ \E h \in Handlers : HandleCallbackError(h)
    \/ \E h \in Handlers : HandleCallback(h)
    \/ \E h \in Handlers : HandleAuthCallbackDone(h)
    \/ \E h \in Handlers : HandleAuthReset(h)
    \/ HandshakeTick

SpecLogin == InitLogin /\ [][NextLogin]_vars

\* The token store on its file system, for the paths TOKEN_FILE may name: a
\* bare name, paths relative to the working directory, absolute paths, a
\* file in the root.  The directories of the path may be there already, and
\* so may the file.
TokenPaths ==
    { <<"t">>,
      <<".", "/", "t">>,
      <<"d", "/", "t">>,
      <<"d", "/", "e", "/", "t">>,
      <<"t", "/", "t">>,
      <<"d", "/", ".", "/", "t">>,
      <<"d", "/", "/", "t">>,
      <<".", "/", "d", "/", "t">>,
      <<"/", "d", "/", "t">>,
      <<"/", "d", "/", "e", "/", "t">>,
      <<"/", "t">> }

Parents(path) ==
    { d \in { SubSeq(Node(path), 1, i) : i \in 0..(Len(Node(path)) - 1) } :
          ~IsDir(EmptyDisk, d) }

InitPath ==
    /\ now = 0
    /\ client = [c \in Collectors |-> NoFetcher]
    /\ cache = [c \in Collectors |-> NoCache]
    /\ collectorMu = [c \in Collectors |-> NoThread]
    /\ constructed = 0
    /\ collectorsByID = {}
    /\ regMtx = NoThread
    /\ managerMu = NoThread
    /\ currentCollector = NoCollector
    /\ pc = [t \in Threads |-> "idle"]
    /\ stage = [t \in Threads |-> "none"]
    /\ callee = [t \in Threads |-> NoCollector]
    /\ fetcherArg = [t \in Threads |-> NoFetcher]
    /\ program = [t \in Threads |-> AnyCalls]
    /\ tokenFile = NoFile
    /\ storedFile = AbsentFile
    /\ filepath \in TokenPaths
    /\ fs \in { EmptyDisk,
                [dirs |-> Parents(filepath), files |-> {}],
                [dirs |-> Parents(filepath), files |-> {Node(filepath)}] }
    /\ keySetting = NoSetting
    /\ encryptionKey = NoStore
    /\ tokens = [k \in RequestTokens |-> NoEntry]
    /\ redis = EmptyRedis
    /\ lastSet = NoCalls
    /\ issued = 0
    /\ callbackURL = NoURL
    /\ exchanges = [k \in RequestTokens |-> 0]
    /\ req = [h \in Handlers |-> NoRequest]
    /\ event = NoEvent

\* What a store operation on the path returned, and the disk it found.
PathReturns(op, err) ==
    [Returns(MainThread, op, err) EXCEPT !.data = <<fs>>]

PathSaveCall ==
    /\ fs' = PathSave(fs, filepath).disk
    /\ event' = PathReturns("Save", PathSave(fs, filepath).err)
    /\ UNCHANGED <<now, collectorVars, constructed, registryVars, managerVars, threadVars,
                   tokenFile, storedFile, filepath, keySetting, encryptionKey, tokens, redis,
                   lastSet, issued,
                   callbackURL, exchanges, req>>

PathLoadCall ==
    /\ event' = PathReturns("Load", ReadFile(fs, filepath))
    /\ UNCHANGED <<now, collectorVars, constructed, registryVars, managerVars, threadVars,
                   serverVars>>

PathClearCall ==
    /\ fs' = Remove(fs, filepath).disk
    /\ event' = PathReturns("Clear", Remove(fs, filepath).err)
    /\ UNCHANGED <<now, collectorVars, constructed, registryVars, managerVars, threadVars,
                   tokenFile, storedFile, filepath, keySetting, encryptionKey, tokens, redis,
                   lastSet, issued,
                   callbackURL, exchanges, req>>

NextPath ==
    \/ PathSaveCall
    \/ PathLoadCall
    \/ PathClearCall

SpecPath == InitPath /\ [][NextPath]_vars

\* The store built from ENCRYPTION_KEY, then used.  A setting is a text of
\* some length that is base64 or not; the lengths are those around the key
\* sizes and their base64 forms.
SettingLengths == {0, 4, 8, 16, 24, 31, 32, 33, 43, 44, 48}

KeySettings ==
    { setting \in [len : SettingLengths, base64 : BOOLEAN, pad : 0..2] :
         /\ setting.len = 0 => setting = NoSetting
         /\ ~(setting.base64 /\ setting.len % 4 = 0) => setting.pad = 0 }

InitKey ==
    /\ now = 0
    /\ client = [c \in Collectors |-> NoFetcher]
    /\ cache = [c \in Collectors |-> NoCache]
    /\ collectorMu = [c \in Collectors |-> NoThread]
    /\ constructed = 0
    /\ collectorsByID = {}
    /\ regMtx = NoThread
    /\ managerMu = NoThread
    /\ currentCollector = NoCollector
    /\ pc = [t \in Threads |-> "idle"]
    /\ stage = [t \in Threads |-> "none"]
    /\ callee = [t \in Threads |-> NoCollector]
    /\ fetcherArg = [t \in Threads |-> NoFetcher]
    /\ program = [t \in Threads |-> AnyCalls]
    /\ tokenFile = NoFile
    /\ storedFile = AbsentFile
    /\ filepath = NoPath
    /\ fs = EmptyDisk
    /\ keySetting \in KeySettings
    /\ encryptionKey = NoStore
    /\ tokens = [k \in RequestTokens |-> NoEntry]
    /\ redis = EmptyRedis
    /\ lastSet = NoCalls
    /\ issued = 0
    /\ callbackURL = NoURL
    /\ exchanges = [k \in RequestTokens |-> 0]
    /\ req = [h \in Handlers |-> NoRequest]
    /\ event = NoEvent

\* main.go line 56; main exits if the store cannot be built.
NewFileTokenStorageCall ==
    /\ ~encryptionKey.built
    /\ event = NoEvent
    /\ encryptionKey' = NewFileTokenStorage(keySetting).store
    /\ event' = Returns(MainThread, "NewFileTokenStorage", NewFileTokenStorage(keySetting).err)
    /\ UNCHANGED <<now, collectorVars, constructed, registryVars, managerVars, threadVars,
                   tokenFile, storedFile, filepath, fs, keySetting, tokens, redis, lastSet,
                   issued, callbackURL, exchanges, req>>

KeySave ==
    /\ encryptionKey.built
    /\ LET credential == [Token |-> <<"a">>, TokenSecret |-> <<"a">>]
           saved == FileSave(storedFile, KeyOf(encryptionKey), credential, "n1")
       IN  /\ storedFile' = saved.file
           /\ event' = Returns(MainThread, "Save", saved.err)
    /\ UNCHANGED <<now, collectorVars, constructed, registryVars, managerVars, threadVars,
                   tokenFile, filepath, fs, keySetting, encryptionKey, tokens, redis, lastSet,
                   issued, callbackURL, exchanges, req>>

KeyLoad ==
    /\ encryptionKey.built
    /\ event' = Returns(MainThread, "Load", FileLoad(storedFile, KeyOf(encryptionKey)).err)
    /\ UNCHANGED <<now, collectorVars, constructed, registryVars, managerVars, threadVars,
                   serverVars>>

NextKey ==
    \/ NewFileTokenStorageCall
    \/ KeySave
    \/ KeyLoad

SpecKey == InitKey /\ [][NextKey]_vars

\* A Manager that has been used before: RegisterCollector while the fetch
\* failed, then UnregisterCollector while the fetch succeeded, have left the
\* collector in the registry under the error indicator, with nothing current.
InitReplace ==
    /\ now = 0
    /\ client = [c \in Collectors |-> IF c = LeftCollector THEN 1 ELSE NoFetcher]
    /\ \E transactions \in FetchData(1) :
          cache = [c \in Collectors |->
                      IF c = LeftCollector THEN Refreshed(NoCache, transactions, 0)
                      ELSE NoCache]
    /\ collectorMu = [c \in Collectors |-> NoThread]
    /\ constructed = 0
    /\ collectorsByID = RegistryRegister({}, Descs(ErrorMetrics), LeftCollector)
    /\ regMtx = NoThread
    /\ managerMu = NoThread
    /\ currentCollector = NoCollector
    /\ pc = [t \in Threads |-> "idle"]
    /\ stage = [t \in Threads |-> "none"]
    /\ callee = [t \in Threads |-> NoCollector]
    /\ fetcherArg = [t \in Threads |-> NoFetcher]
    /\ program = [t \in Threads |-> AnyCalls]
    /\ tokenFile = NoFile
    /\ storedFile = AbsentFile
    /\ filepath = NoPath
    /\ fs = EmptyDisk
    /\ keySetting = NoSetting
    /\ encryptionKey = NoStore
    /\ tokens = [k \in RequestTokens |-> NoEntry]
    /\ redis = EmptyRedis
    /\ lastSet = NoCalls
    /\ issued = 0
    /\ callbackURL = NoURL
    /\ exchanges = [k \in RequestTokens |-> 0]
    /\ req = [h \in Handlers |-> NoRequest]
    /\ event = NoEvent

SpecReplace == InitReplace /\ [][Next]_vars

\* ------------------------------------------------------------ properties
Stale(ca, t) == ca = NoCache \/ t - ca.timestamp >= cacheDuration

Fetching(c) == { t \in Threads : pc[t] = "fetch" /\ callee[t] = c }

NormalNames == {"zaim_today_total_amount", "zaim_last_update"}
HourlyNames == {"zaim_payment_amount", "zaim_payment_count",
                "zaim_income_amount", "zaim_income_count"}

\* C1: at every instant the registry holds at most one collector registered
\* by the Manager.
C1_SingleActiveCollector == Cardinality(Registered) <= 1

\* C2: when the reset handler has completed successfully, IsAuthenticated()
\* is false, IsRegistered() is false and no collector is registered.
C2_ResetLeavesNothingRegistered ==
    (event.op = "handleAuthReset" /\ event.ret = "ok")
        => (~IsAuthenticated /\ ~IsRegistered /\ Registered = {})

\* C3: there is no state in which the credential is absent while a collector
\* is still registered and can serve a scrape.
C3_NoCollectorWithoutCredential == ~IsAuthenticated => Registered = {}

\* C4: when a callback has completed the handshake, a collector wrapping a
\* fetcher for the new credential is registered and IsRegistered() is true.
C4_CallbackRegistersCollector ==
    (event.op = "handleAuthCallback" /\ event.ret = "ok")
        => /\ IsRegistered
           /\ \E c \in Registered : client[c] = AccessTokenOf(event.data[1])

\* C5: of the Collect calls that arrive while the cache is empty or stale,
\* one calls the fetcher: at most one fetch runs on a collector at a time, a
\* fetch is only ever running or completed on an empty or stale entry, and
\* a call that finds the entry refreshed under the write lock returns that
\* entry's transactions.
C5_OneFetchPerRefresh ==
    /\ \A c \in Collectors : Cardinality(Fetching(c)) <= 1
    /\ \A c \in Collectors : Fetching(c) # {} => Stale(cache[c], now)
    /\ event.via = "fetched" => Stale(event.before, event.at)
    /\ event.via = "rechecked" =>
          /\ ~Stale(event.before, event.at)
          /\ event.data = event.before.data

\* A call found the entry stale under the read lock and fresh under the
\* write lock: another call had refreshed it in between.
C5_Witness == event.via = "rechecked"

\* C6: a Collect made strictly less than 5 minutes after the successful
\* fetch is served the cached transactions of that fetch without a fetch;
\* one made 5 minutes after it or later is not served from the cache.
C6_ServedFromCacheWithinTTL ==
    /\ event.via \in {"cached", "rechecked"} =>
          /\ event.before # NoCache
          /\ event.at - event.before.timestamp < 5
          /\ event.data = event.before.data
          /\ cache[event.collector] = event.before
    /\ \A t \in Threads : pc[t] = "fetch" /\ cache[callee[t]] # NoCache =>
          now - cache[callee[t]].timestamp >= 5

\* A call is served from the cache in the last minute the entry is fresh.
C6_Witness ==
    /\ event.via = "cached"
    /\ event.at - event.before.timestamp = 4

\* C7: a scrape whose fetch fails emits the error indicator and leaves the
\* registration as it was; a Collect that obtained transactions emits the
\* normal set and no error indicator.
C7_FetchFailureIsolated ==
    /\ [][\A t \in Scrapers : GetTransactionsFetchError(t) =>
            /\ event'.metrics = { Sample("zaim_error", <<"api_error">>, 1) }
            /\ IsRegistered' = IsRegistered
            /\ collectorsByID' = collectorsByID]_vars
    /\ [](event.via \in {"cached", "rechecked", "fetched"} =>
            /\ "zaim_error" \notin Descs(event.metrics)
            /\ NormalNames \subseteq Descs(event.metrics))

\* A scrape's fetch succeeds on a collector whose fetch had failed when it
\* was registered, and the collector is still the Manager's.
C7_Witness ==
    /\ event.op = "Gather"
    /\ event.via = "fetched"
    /\ event.data = <<>>
    /\ [id |-> {"zaim_error"}, coll |-> event.collector] \in collectorsByID
    /\ currentCollector = event.collector

\* C8: a Collect emits either the single sample zaim_error{type="api_error"} 1
\* and nothing else, when obtaining the transactions failed, or the hourly
\* series and the two scalars and no zaim_error; the scrape caller gets no
\* error.
C8_ErrorOrNormalSeries ==
    event.via # "none" =>
        /\ event.op = "Gather" => event.ret = "ok"
        /\ IF event.via = "error"
           THEN event.metrics = { Sample("zaim_error", <<"api_error">>, 1) }
           ELSE /\ "zaim_error" \notin Descs(event.metrics)
                /\ \A n \in NormalNames :
                      Cardinality({ m \in event.metrics : m.name = n }) = 1
                /\ Descs(event.metrics) \subseteq NormalNames \cup HourlyNames
                /\ \A i \in 1..Len(event.data) : event.data[i].created.parsable =>
                      \A n \in HourlyNames : \E m \in event.metrics :
                          m.name = n /\ m.label = HourKey(event.data[i].created)

\* A Collect emitted hourly series.
C8_Witness ==
    /\ event.via = "fetched"
    /\ \E m \in event.metrics : m.name = "zaim_payment_amount" /\ m.value = 1000

\* C9: a failed fetch leaves every cache entry as it was, and an entry only
\* changes to the complete result of the successful fetch of that step.
C9_CacheReplacedWholesale ==
    [][/\ event'.via = "error" => cache' = cache
       /\ \A c \in Collectors : cache'[c] # cache[c] =>
             /\ event'.via = "fetched"
             /\ event'.collector = c
             /\ cache'[c] = [data |-> event'.data, timestamp |-> now]]_vars

\* A fetch failed on a collector that held an entry, which is still there.
C9_Witness ==
    /\ event.via = "error"
    /\ event.before # NoCache
    /\ cache[event.collector] = event.before

\* C10: the token exchange is performed at most once per request token.
C10_ExchangeAtMostOnce == \A k \in RequestTokens : exchanges[k] <= 1

\* C11: when UnregisterCollector returns, whatever the state it was called
\* in, it has not failed and IsRegistered() is false; called when the Manager
\* holds no collector it changes nothing.
C11_UnregisterIdempotent ==
    /\ [](event.op = "UnregisterCollector" => event.ret = "ok" /\ ~IsRegistered)
    /\ [][(event'.op = "UnregisterCollector" /\ currentCollector = NoCollector) =>
             UNCHANGED <<collectorVars, constructed, registryVars, managerVars,
                         threadVars>>]_vars

\* An UnregisterCollector returns after it described and removed the
\* Manager's collector; a second one then returns at once.
C11_Witness ==
    /\ event.op = "UnregisterCollector"
    /\ event.via = "none"
    /\ constructed > 0
    /\ currentCollector = NoCollector

\* C12: when RegisterCollector returns it has succeeded, and the registry
\* holds one collector, the one constructed by that call, which is the
\* Manager's current collector.
C12_RegisterReplaces ==
    event.op = "RegisterCollector" =>
        /\ event.ret = "ok"
        /\ Registered = {event.collector}
        /\ currentCollector = event.collector

\* The file is a blob Save wrote under `key` and nothing changed since.
SealedUnder(file, key) ==
    \E c \in OAuthTokens, n \in Nonces : file = WrittenFile(Seal(key, n, jsonMarshal(c)))

\* C13: a Load that follows a successful Save(c) on a store with the same
\* key (or both without encryption) succeeds and returns c, token and
\* token secret.
C13_SaveLoadRoundTrip ==
    [][\A k \in Keys :
          (event.op = "Save" /\ event.ret = "nil" /\ event.data[1] = k /\ StorageLoad(k))
              => (event'.ret = "nil" /\ event'.data[2] = event.data[2])]_vars

\* C14: with encryption enabled, a Load of a blob that was not written under
\* the store's key, was changed since or is cut short returns an error and
\* no credential, does not panic and leaves the file as it was; a blob
\* shorter than one nonce gives ErrInvalidToken.
C14_LoadRejectsBadBlob ==
    (/\ event.op = "Load"
     /\ event.data[1] # NoKey
     /\ event.before.present
     /\ ~SealedUnder(event.before, event.data[1])) =>
        /\ event.ret \notin {"nil", "panic"}
        /\ event.data[2] = <<>>
        /\ storedFile = event.before
        /\ (ValidAESKey(event.data[1]) /\ Len(event.before.bytes) < NonceSize)
              => event.ret = "ErrInvalidToken"

\* A Load with a key found a blob shorter than one nonce.
C14_Witness ==
    /\ event.op = "Load"
    /\ ValidAESKey(event.data[1])
    /\ event.before.present
    /\ Len(event.before.bytes) = NonceSize - 1
    /\ event.ret = "ErrInvalidToken"

\* C16: Clear returns no error, also when there is no file; when it has
\* returned there is no file, so a second Clear changes nothing and a Load
\* with any key fails with ErrTokenNotFound.
C16_ClearIdempotent ==
    event.op = "Clear" =>
        /\ event.ret = "nil"
        /\ storedFile = AbsentFile
        /\ FileClear(storedFile) = storedFile
        /\ \A k \in Keys : FileLoad(storedFile, k).err = "ErrTokenNotFound"

\* A Clear returned that found no file.
C16_Witness ==
    /\ event.op = "Clear"
    /\ event.before = AbsentFile
    /\ event.ret = "nil"

\* C15: IsAuthenticated() is true exactly when the credential can be loaded:
\* it becomes true only when a callback's token exchange has succeeded and
\* saved the credential, is true right after that, and is false right after
\* a reset; evaluating it changes nothing, in particular no request goes to
\* the remote service.
C15_AuthenticatedIffLoadable ==
    /\ [](IsAuthenticated <=> LoadOK(tokenFile))
    /\ [][\A h \in Handlers : HandleCallback(h) => IsAuthenticated']_vars
    /\ [][\A h \in Handlers : HandleAuthReset(h) => ~IsAuthenticated']_vars
    /\ [][(~IsAuthenticated /\ IsAuthenticated') =>
             \E h \in Handlers : HandleCallback(h) /\ exchanges' # exchanges]_vars
    /\ [][(MainRegister \/ MainSkip) => (issued' = issued /\ exchanges' = exchanges)]_vars

\* A callback has just completed the token exchange in a process that
\* started without a credential, and the credential it saved can be loaded.
C15_Witness ==
    \E h \in Handlers :
        /\ pc[h] = "Delete"
        /\ tokenFile = AccessTokenOf(req[h].token)
        /\ IsAuthenticated
        /\ Registered = {}

\* C17: the zaim_last_update sample a Collect emits is the time of the fetch
\* that filled the cache entry the call was served from, so calls served from
\* one entry report one value.
C17_LastUpdateIsFetchTime ==
    event.via \in {"cached", "rechecked", "fetched"} =>
        \A m \in event.metrics : m.name = "zaim_last_update" =>
            m.value = 60 * (IF event.via = "fetched" THEN event.at
                            ELSE event.before.timestamp)

\* C18: RegisterCollector and UnregisterCollector do not depend on Collect
\* calls in flight: a caller inside either of them never has to wait for a
\* cache lock that a Collect of another thread holds during its fetch.
C18_RegistrationIndependentOfCollect ==
    \A t \in Callers :
        (managerMu = t /\ pc[t] \in {"RLock", "Lock"}) =>
            collectorMu[callee[t]] \in {NoThread, t}

\* The next step of a thread that is inside an operation.
Step(t) ==
    \/ GetTransactionsRLock(t)
    \/ GetTransactionsLock(t)
    \/ GetTransactionsFetchError(t)
    \/ GetTransactionsFetch(t)
    \/ (t \in Handlers /\ StorageUnlock(t))

\* The locks held: t holds Manager.mu, the registry lock, a cache lock or
\* the credential store lock.
HoldsLock(t) ==
    \/ managerMu = t
    \/ regMtx = t
    \/ \E c \in Collectors : collectorMu[c] = t
    \/ t \in StorageReaders \cup StorageWriters

\* C19: no deadlock among the three lock domains: a thread that holds a lock
\* or is inside an operation can take its next step, or waits for a cache
\* lock whose holder can take its next step.
C19_NoDeadlock ==
    \A t \in Threads :
        (HoldsLock(t) \/ pc[t] # "idle") =>
            \/ ENABLED Step(t)
            \/ \E u \in Threads \ {t} :
                  /\ pc[t] \in {"RLock", "Lock"}
                  /\ collectorMu[callee[t]] = u
                  /\ ENABLED Step(u)

\* A caller holding Manager.mu waits for the cache lock a scrape holds,
\* while a handler holds the credential store lock.
C19_Witness ==
    /\ \E t \in Callers, u \in Scrapers :
          managerMu = t /\ pc[t] = "RLock" /\ collectorMu[callee[t]] = u
    /\ StorageWriters # {}

\* C20: a collector keeps the fetcher it was constructed with for as long as
\* anything refers to it, so a Collect in flight while its collector is
\* replaced or removed fetches from that fetcher: the transactions a fetch
\* returns are those of the fetcher the collector had when the Collect began.
C20_CollectUsesOwnFetcher ==
    [][/\ \A c \in Collectors :
             (client[c] # NoFetcher /\ client'[c] # client[c]) =>
                 (client'[c] = NoFetcher /\ \A t \in Threads : callee'[t] # c)
       /\ \A t \in Threads :
             (callee[t] # NoCollector /\ callee'[t] = callee[t]) =>
                 client'[callee[t]] = client[callee[t]]
       /\ \A t \in Threads : GetTransactionsFetch(t) =>
             event'.data \in FetchData(client[callee[t]])]_vars

\* A scrape's fetch returns transactions of fetcher 1 on a collector that
\* has been replaced by one constructed with fetcher 2.
C20_Witness ==
    /\ event.op = "Gather"
    /\ event.via = "fetched"
    /\ event.data = <<TxOne(1)>>
    /\ currentCollector # NoCollector
    /\ currentCollector # event.collector
    /\ client[currentCollector] = 2

\* Concurrent Collect calls as in SpecCollect, with the scheduling the code
\* has: a caller waiting for the cache lock gets it when it is free again
\* and again (sync.RWMutex hands the lock to waiters), and a fetch ends,
\* with an error at the latest when httpClient.Timeout expires.
CollectFairness ==
    \A t \in CollectCallers :
        /\ SF_vars(GetTransactionsRLock(t))
        /\ SF_vars(GetTransactionsLock(t))
        /\ WF_vars(GetTransactionsFetchError(t) \/ GetTransactionsFetch(t))

SpecCollectLive == SpecCollect /\ CollectFairness

\* C21: every Collect call returns: a caller inside Collect (waiting for the
\* cache lock or fetching) is eventually outside it, and the fetch that ends
\* with an error, a timeout included, makes Collect emit zaim_error and
\* return.
C21_CollectReturns ==
    /\ \A t \in CollectCallers : (pc[t] # "idle") ~> (pc[t] = "idle")
    /\ [][\A t \in CollectCallers : GetTransactionsFetchError(t) =>
            /\ event'.metrics = { Sample("zaim_error", <<"api_error">>, 1) }
            /\ pc'[t] = "idle"
            /\ collectorMu'[callee[t]] = NoThread]_vars

\* A fetch has failed while another caller was waiting for the write lock
\* behind it.
C21_Witness ==
    /\ event.via = "error"
    /\ \E u \in CollectCallers : pc[u] = "Lock" /\ callee[u] = event.collector

\* The answers of the two stores to the call the event records.
Answers == { event.data[2], event.data[3] }

C23_EntryExpires ==
    /\ \A id \in HandshakeIds :
          (lastSet[id] # NoSet /\ now - lastSet[id].at > 10) =>
              /\ ~StoreHas(tokens, id, now)
              /\ StoreGet(tokens, id, now).err # "nil"
              /\ StoreGet(tokens, id, now).secret = 0
              /\ RedisGet(redis, id, now).err # "nil"
              /\ RedisGet(redis, id, now).secret = 0
    /\ (event.op = "Get" /\ lastSet[event.data[1]] # NoSet
           /\ event.at - lastSet[event.data[1]].at > 10) =>
          \A r \in Answers : r.err # "nil" /\ r.secret = 0

\* A Get made 11 minutes after the Set fails: the entry has expired.
C23_Witness ==
    /\ event.op = "Get"
    /\ lastSet[event.data[1]] # NoSet
    /\ event.at - lastSet[event.data[1]].at = 11
    /\ event.data[2].err = "token expired"
    /\ event.data[3].err = "token not found"

C25_MapAccessExclusive ==
    /\ Cardinality({ h \in Handlers : pc[h] \in MapOps }) <= 1
    /\ event.ret # "fatal error"
    /\ event.via # "lost"

\* The sum of the amounts of the transactions at the positions in idx.
SumOver(transactions, idx) ==
    LET sum[n \in 0..Len(transactions)] ==
            IF n = 0 THEN 0
            ELSE sum[n - 1] + (IF n \in idx THEN transactions[n].amount ELSE 0)
    IN sum[Len(transactions)]

\* C26: AggregateByHour returns one bucket for each hour some transaction's
\* created time truncates to, and no other; the bucket's PaymentTotal and
\* PaymentCount are the sum of the amounts and the number of the payments
\* of that hour, IncomeTotal and IncomeCount those of its incomes; a
\* transfer adds to no total and no count.
C26_HourlyBuckets ==
    event.op = "AggregateByHour" =>
        LET txs == event.data
            hourOf(i) == <<txs[i].created.day, txs[i].created.hour>>
            of(key, mode) == { i \in 1..Len(txs) : /\ txs[i].created.parsable
                                                   /\ hourOf(i) = key
                                                   /\ txs[i].mode = mode }
        IN  /\ { p[1] : p \in event.metrics } =
                   { hourOf(i) : i \in { j \in 1..Len(txs) : txs[j].created.parsable } }
            /\ \A p \in event.metrics, q \in event.metrics : p[1] = q[1] => p = q
            /\ \A p \in event.metrics :
                  p[2] = [PaymentCount |-> Cardinality(of(p[1], "payment")),
                          PaymentTotal |-> SumOver(txs, of(p[1], "payment")),
                          IncomeCount |-> Cardinality(of(p[1], "income")),
                          IncomeTotal |-> SumOver(txs, of(p[1], "income"))]

\* Two payments of one hour are added up: 1500 in 2 payments.
C26_Witness ==
    /\ event.op = "AggregateByHour"
    /\ \E p \in event.metrics : p[2].PaymentTotal = 1500 /\ p[2].PaymentCount = 2

\* C27: a transaction whose timestamp does not parse is skipped silently:
\* AggregateByHour and AggregateByDay return, with no error, the buckets they
\* return for the list without those records.
C27_UnparsableSkipped ==
    /\ event.op = "AggregateByHour" =>
          /\ event.ret = "ok"
          /\ event.metrics =
                AggregateByHour(SelectSeq(event.data, LAMBDA tx : tx.created.parsable))
    /\ event.op = "AggregateByDay" =>
          /\ event.ret = "ok"
          /\ event.metrics = AggregateByDay(SelectSeq(event.data, LAMBDA tx : tx.date >= 0))

\* AggregateByHour was given a record that does not parse and one that does.
C27_Witness ==
    /\ event.op = "AggregateByHour"
    /\ Len(event.data) = 2
    /\ ~event.data[1].created.parsable
    /\ event.data[2].created.parsable
    /\ Cardinality(event.metrics) = 1

\* C28: GetTodayTotal returns the sum of the amounts of the payments whose
\* date is the current day in Asia/Tokyo, whatever the created timestamps
\* are, parsable or not.
C28_TodayTotal ==
    event.op = "GetTodayTotal" =>
        LET txs == event.data
            today == (event.at + 9 * 60) \div (24 * 60)
            blind == [i \in 1..Len(txs) |-> [txs[i] EXCEPT !.created = Unparsable]]
        IN  /\ event.metrics =
                  { SumOver(txs, { i \in 1..Len(txs) :
                                      txs[i].mode = "payment" /\ txs[i].date = today }) }
            /\ { GetTodayTotal(blind, event.at) } = event.metrics

\* At 00:00 in Tokyo, 15:00 UTC of the day before, a payment dated with the
\* new day, whose created timestamp does not parse, is in the total.
C28_Witness ==
    /\ event.op = "GetTodayTotal"
    /\ event.at = 900
    /\ Len(event.data) = 1
    /\ event.data[1].date = 1
    /\ ~event.data[1].created.parsable
    /\ event.metrics = {1000}

\* C29: GetAuthorizationURL changes no local state: the Manager's
\* configuration, the credential store and the handshake store are after
\* the call as they were before it, so the request token of a call is asked
\* for the callback URL that call was given, whatever other calls run at the
\* same time.
C29_StartHandshakeNoLocalEffect ==
    /\ [][\A h \in Handlers :
            ((\E host \in Hosts : GetAuthorizationURLSet(h, host))
             \/ (\E failed \in BOOLEAN : GetAuthorizationURLRequest(h, failed)))
                => /\ callbackURL' = callbackURL
                   /\ tokenFile' = tokenFile
                   /\ storedFile' = storedFile
                   /\ tokens' = tokens
                   /\ redis' = redis]_vars
    /\ [](event.op = "GetAuthorizationURL" => event.data[2] = event.data[1])

\* C30: when every goroutine has called RegisterCollector and then
\* UnregisterCollector on the one Manager and all have finished, IsRegistered
\* is false and the registry holds no collector of that Manager.
C30_ConcurrentAccessLeavesNothing ==
    (\A t \in Callers : program[t] = <<>> /\ pc[t] = "idle")
        => ~IsRegistered /\ Registered = {}

\* The part of C30 that is about the Manager's handle only.
C30_HandleOnly ==
    (\A t \in Callers : program[t] = <<>> /\ pc[t] = "idle") => ~IsRegistered

\* C31: RegisterCollector returns no error and IsRegistered becomes true also
\* when the fetch of the supplied fetcher fails; the failure shows only as
\* the zaim_error sample of the Collect that ran.
C31_RegisterSucceedsOnFetchFailure ==
    (event.op = "RegisterCollector" /\ event.via = "error")
        => /\ event.ret = "ok"
           /\ IsRegistered
           /\ currentCollector = event.collector
           /\ event.metrics = ErrorMetrics

\* The same on a registry that holds nothing when Register is reached.
C31_OnEmptyRegistry ==
    [][(collectorsByID = {} /\ event'.op = "RegisterCollector" /\ event'.via = "error")
           => /\ event'.ret = "ok"
              /\ currentCollector' = event'.collector
              /\ event'.metrics = ErrorMetrics]_vars

\* C32: when the token exchange fails, HandleCallback returns the error after
\* that one exchange call, and the credential store is as it was: no
\* credential is created and a stored one is kept.
C32_ExchangeFailureKeepsStore ==
    [][event'.ret = "exchange failed"
          => \E h \in Handlers :
                /\ event'.thread = h
                /\ pc[h] = "HandleCallback" /\ pc'[h] = "idle"
                /\ exchanges' = [exchanges EXCEPT ![req[h].token] = @ + 1]
                /\ tokenFile' = tokenFile
                /\ storedFile' = storedFile]_vars

\* An exchange has failed while a credential was stored, and it is still there.
C32_Witness ==
    /\ event.ret = "exchange failed"
    /\ tokenFile = 1

\* An exchange has failed with no credential stored.
C32_WitnessNone ==
    /\ event.ret = "exchange failed"
    /\ tokenFile = NoFile

\* C33: a credential is stored, and the exchange endpoint called, only by a
\* callback whose oauth_token had a live entry in the handshake store, written
\* by an earlier handleAuthStart, when the callback looked it up; a callback
\* with an unknown, deleted or expired token or with a missing parameter
\* stores nothing and calls no exchange.
C33_AuthenticatedOnlyThroughHandshake ==
    [][/\ \A h \in Handlers :
            (pc[h] # "HandleCallback" /\ pc'[h] = "HandleCallback")
                => /\ req'[h].token \in 1..issued
                   /\ req'[h].verifier # ""
                   /\ tokens[req'[h].token] # NoEntry
                   /\ now <= tokens[req'[h].token].expiresAt
                   /\ req'[h].secret = tokens[req'[h].token].secret
       /\ (exchanges' # exchanges \/ (tokenFile' # tokenFile /\ tokenFile' # NoFile))
            => \E h \in Handlers : pc[h] = "HandleCallback" /\ pc'[h] # "HandleCallback"
       /\ event'.ret \in {"bad request", "no request token"}
            => /\ exchanges' = exchanges
               /\ tokenFile' = tokenFile
               /\ pc' = pc]_vars

\* A callback came with a token whose entry had expired and was turned away,
\* and nothing is stored.
C33_Witness ==
    /\ event.ret = "no request token"
    /\ issued = 1
    /\ now > requestTokenTTL
    /\ exchanges[1] = 0
    /\ tokenFile = NoFile

\* A callback with a live token has stored a credential.
C33_WitnessStored ==
    /\ tokenFile = AccessTokenOf(1)
    /\ exchanges[1] > 0

\* C34: for every configured token path, a bare file name and a relative path
\* included, Save makes the parent directory where it is missing and writes
\* the file, so that a Load after the Save succeeds.
C34_SaveMakesDirectoryAndFile ==
    event.op = "Save"
        => /\ event.ret = "nil"
           /\ IsFile(fs, Node(filepath))
           /\ \A d \in Parents(filepath) : IsDir(fs, d)
           /\ ReadFile(fs, filepath) = "nil"

\* The same for the paths whose directory line 108 computes as filepath.Dir
\* would.
C34_WhereDirIsRight ==
    (event.op = "Save" /\ Node(SaveDir(filepath)) = Node(FilepathDir(filepath))
        /\ SaveDir(filepath) # <<>>)
        => /\ event.ret = "nil"
           /\ IsFile(fs, Node(filepath))
           /\ ReadFile(fs, filepath) = "nil"

\* C35: a store that encrypts is only ever built with a 256-bit key:
\* NewFileTokenStorage rejects every non-empty key setting that does not
\* yield exactly 32 key bytes, base64 or raw.
C35_EncryptingStoreHas256BitKey ==
    (encryptionKey.built /\ ~encryptionKey.nil) => encryptionKey.len = KeySize

\* The same for the settings that are not base64.
C35_RawKeys ==
    (encryptionKey.built /\ ~encryptionKey.nil /\ ~Decodable(keySetting))
        => encryptionKey.len = KeySize

\* C36: whenever no Manager call is under way, IsRegistered is true exactly
\* when the registry holds the collector the Manager holds as current, also
\* after a RegisterCollector whose Register step returned an error.
C36_IsRegisteredIffInRegistry ==
    managerMu = NoThread => (IsRegistered <=> currentCollector \in Registered)

\* C37: UnregisterCollector, and the unregister step of RegisterCollector,
\* removes the collector from the registry in every case, also when the
\* descriptors it describes then differ from those it was registered under.
C37_UnregisterRemoves ==
    [][/\ event'.op = "UnregisterCollector" => currentCollector \notin Registered'
       /\ \A t \in Callers :
            (stage[t] = "Register.Unregister" /\ stage'[t] # "Register.Unregister")
                => currentCollector \notin Registered']_vars

\* C38: a collector RegisterCollector constructs starts without cache entry
\* and shares its cache with no other collector: an entry holds transactions
\* of the collector's own fetcher only, and no Collect on a collector
\* returns transactions obtained through another collector's fetcher, also
\* within 5 minutes of the old collector's last successful fetch.
C38_NewCollectorOwnCache ==
    /\ [](\A c \in Collectors : cache[c] # NoCache =>
             /\ client[c] # NoFetcher
             /\ cache[c].data \in FetchData(client[c]))
    /\ [][/\ constructed' # constructed =>
               /\ cache[constructed'] = NoCache
               /\ cache'[constructed'] = NoCache
          /\ \A t \in Threads :
               (event'.thread = t /\ event'.via \in {"cached", "rechecked", "fetched"})
                   => event'.data \in FetchData(client[callee[t]])]_vars

\* The new collector, constructed with fetcher 2, has fetched its own
\* transactions while the replaced collector still holds a fresh entry
\* with those of fetcher 1.
C38_Witness ==
    /\ event.via = "fetched"
    /\ event.collector = currentCollector
    /\ client[currentCollector] = 2
    /\ event.data = <<TxOne(2)>>
    /\ \E c \in Collectors :
          /\ c # currentCollector
          /\ client[c] = 1
          /\ Fresh(cache[c], now)
          /\ cache[c].data = <<TxOne(1)>>

\* C39: for one collector under concurrent Collect calls, the time of the
\* cache entry never decreases, at most one fetch is in flight at any time,
\* and an entry, once there, holds exactly the transactions of the most
\* recent successful fetch: only a successful fetch changes it, to that
\* fetch's result and time.
C39_CacheFollowsLastFetch ==
    /\ [](\A c \in Collectors : Cardinality(Fetching(c)) <= 1)
    /\ [][\A c \in Collectors :
            /\ (cache[c] # NoCache /\ Live(c)) =>
                  /\ cache'[c] # NoCache
                  /\ cache'[c].timestamp >= cache[c].timestamp
            /\ (event'.via = "fetched" /\ event'.collector = c /\ Live(c)) =>
                  cache'[c] = [data |-> event'.data, timestamp |-> now]
            /\ (event'.via # "fetched" \/ event'.collector # c) =>
                  (cache'[c] = cache[c] \/ ~Live(c))]_vars

\* A second successful fetch has replaced the entry of an earlier one with
\* other transactions and a later time.
C39_Witness ==
    /\ event.via = "fetched"
    /\ event.before # NoCache
    /\ cache[event.collector].timestamp > event.before.timestamp
    /\ cache[event.collector].data = event.data
    /\ event.data # event.before.data

\* C40: AggregateByHour yields a bucket for an hour if and only if some
\* transaction with a parsable created time falls in that hour, whatever its
\* mode; an hour with transfers only yields a bucket of four zeros, and
\* Collect emits four series of value zero for it.
C40_BucketForEveryParsableHour ==
    LET txs == event.data
        hourOf(i) == <<txs[i].created.day, txs[i].created.hour>>
        parsed == { i \in 1..Len(txs) : txs[i].created.parsable }
        hours == { hourOf(i) : i \in parsed }
        transfersOnly == { key \in hours :
                              \A i \in parsed : hourOf(i) = key => txs[i].mode = "transfer" }
    IN  /\ event.op = "AggregateByHour" =>
              /\ { p[1] : p \in event.metrics } = hours
              /\ \A key \in transfersOnly : <<key, EmptyHourly>> \in event.metrics
        /\ event.op = "Collect" =>
              /\ { s.label : s \in { m \in event.metrics : m.name \in HourlyNames } } = hours
              /\ \A key \in hours, name \in HourlyNames :
                    Cardinality({ s \in event.metrics : s.name = name /\ s.label = key }) = 1
              /\ \A key \in transfersOnly, name \in HourlyNames :
                    Sample(name, key, 0) \in event.metrics

\* Collect was given one transfer of 10:05 and nothing else of that hour,
\* and has emitted the four zero series of the hour.
C40_Witness ==
    /\ event.op = "Collect"
    /\ Len(event.data) = 1
    /\ event.data[1].mode = "transfer"
    /\ event.data[1].created.parsable
    /\ \A name \in HourlyNames :
          Sample(name, HourKey(event.data[1].created), 0) \in event.metrics

====
